---- MODULE Spec2Model ----
(***************************************************************************)
(* Device discovery and hot-plug synchronisation of the ALSA backend       *)
(* (src/src/alsa.cpp): the watcher thread device_thread_run, the           *)
(* Enumeration Pass refresh_devices, the exchange slot ready_devices_info  *)
(* and the consumer API flush_events / wait_events / wakeup, with          *)
(* destroy_alsa as the abort controller.                                   *)
(***************************************************************************)
EXTENDS Integers, Sequences, FiniteSets, Bags, TLC

(* ------------------------------------------------------------------ *)
(* Bounds of the model                                                 *)
(* ------------------------------------------------------------------ *)

\* hardware change notifications the environment delivers in one run
MaxEvents == 2
\* wakeup() calls the application issues in one run
MaxWakeups == 1
\* length of the hint lists handed to the Enumeration Pass
MaxHints == 3

(* ------------------------------------------------------------------ *)
(* Program constants                                                   *)
(* ------------------------------------------------------------------ *)

MAX_SAMPLE_RATE == 48000

\* event->len < 8 rejects a notification record (alsa.cpp:548)
MIN_EVENT_NAME_LEN == 8

\* an absent C string (nullptr) is <<>>, a present one is <<s>>
NullStr == <<>>

Some(s) == <<s>>

(* ------------------------------------------------------------------ *)
(* String functions                                                    *)
(* ------------------------------------------------------------------ *)

\* strncmp(big_str, prefix, strlen(prefix)) == 0
str_has_prefix(big_str, prefix) ==
    /\ Len(big_str) >= Len(prefix)
    /\ SubSeq(big_str, 1, Len(prefix)) = prefix

\* strstr(haystack, needle) != NULL
strstr(haystack, needle) ==
    \E i \in 1..(Len(haystack) - Len(needle) + 1) :
        SubSeq(haystack, i, i + Len(needle) - 1) = needle

\* str_partition_on_char: cuts str at the first c; head is what str holds
\* afterwards, tail the returned pointer (absent when c does not occur)
str_partition_on_char(str, c) ==
    LET hits == {i \in 1..Len(str) : SubSeq(str, i, i) = c}
    IN  IF hits = {}
        THEN [head |-> str, tail |-> NullStr]
        ELSE LET k == CHOOSE i \in hits : \A j \in hits : i <= j
             IN  [head |-> SubSeq(str, 1, k - 1),
                  tail |-> Some(SubSeq(str, k + 1, Len(str)))]

\* soundio_alloc_sprintf(nullptr, "%s: %s", descr, descr1) or strdup(descr)
device_description(descr, descr1) ==
    IF descr1 # NullStr THEN descr \o ": " \o descr1[1] ELSE descr

\* soundio_alloc_sprintf(nullptr, "hw:%d,%d", card_index, device_index)
raw_device_name(card_index, device_index) ==
    "hw:" \o ToString(card_index) \o "," \o ToString(device_index)

\* soundio_alloc_sprintf(nullptr, "%s %s", card_name, device_name)
raw_device_description(card_name, device_name) ==
    card_name \o " " \o device_name

(* ------------------------------------------------------------------ *)
(* Enumeration Pass: the scan of refresh_devices (lines 249-478)       *)
(* ------------------------------------------------------------------ *)

\* stream_types[] in scan order
stream_types == <<"PLAYBACK", "CAPTURE">>

\* the exclusion list of the hint scan
ExcludedHint_WithoutNull(name) ==
    \/ str_has_prefix(name, "sysdefault:")
    \/ str_has_prefix(name, "front:")
    \/ str_has_prefix(name, "surround21:")
    \/ str_has_prefix(name, "surround40:")
    \/ str_has_prefix(name, "surround41:")
    \/ str_has_prefix(name, "surround50:")
    \/ str_has_prefix(name, "surround51:")
    \/ str_has_prefix(name, "surround71:")

ExcludedHint(name) ==
    \/ name = "null"
    \/ str_has_prefix(name, "sysdefault:")
    \/ str_has_prefix(name, "front:")
    \/ str_has_prefix(name, "surround21:")
    \/ str_has_prefix(name, "surround40:")
    \/ str_has_prefix(name, "surround41:")
    \/ str_has_prefix(name, "surround50:")
    \/ str_has_prefix(name, "surround51:")
    \/ str_has_prefix(name, "surround71:")

\* the IOID hint: absent means both directions
is_playback(io) == io = NullStr \/ io[1] = "Output"

is_capture(io) == io = NullStr \/ io[1] = "Input"

\* the capture stream of a hint is skipped when the detail text names an output
CaptureSuppressed_Never(descr1) == FALSE

CaptureSuppressed(descr1) ==
    /\ descr1 # NullStr
    /\ strstr(descr1[1], "Output") \/ strstr(descr1[1], "output")

\* whether the hint scan creates a descriptor for this hint and stream
StreamSkipped_IgnoreIoid(stream, io, descr1) ==
    stream = "CAPTURE" /\ CaptureSuppressed(descr1)

StreamSkipped(stream, io, descr1) ==
    \/ stream = "PLAYBACK" /\ ~is_playback(io)
    \/ stream = "CAPTURE" /\ ~is_capture(io)
    \/ stream = "CAPTURE" /\ CaptureSuppressed(descr1)

\* create<SoundIoDevicesInfo>(): zero-filled storage, empty lists
EmptyDevicesInfo ==
    [output_devices |-> <<>>, input_devices |-> <<>>,
     default_output_index |-> 0, default_input_index |-> 0]

\* create<SoundIoDevice>() followed by the assignments of the scan
NewDevice(name, description, is_raw, purpose) ==
    [name |-> name, description |-> description, is_raw |-> is_raw,
     purpose |-> purpose,
     sample_rate_min |-> 0, sample_rate_max |-> 0, sample_rate_default |-> 0]

\* the descriptor as snd_pcm_open names it: the device and its direction
ProbeKey(device) == <<device.name, device.purpose>>

\* lines 205-218: the bounds of the rate range of the hardware, each moved
\* inside the range when its direction says the bound itself is outside
\* (the rates of the hardware are positive and below 2^31)
max_rate_of(hw) == IF hw.max_dir < 0 THEN hw.rate_max - 1 ELSE hw.rate_max

min_rate_of(hw) == IF hw.min_dir > 0 THEN hw.rate_min + 1 ELSE hw.rate_min

\* probe_device (lines 161-243): snd_pcm_open fails for a busy device (line
\* 173), one of the snd_pcm_hw_params calls fails for a device that cannot be
\* configured (lines 178-218); both return SoundIoErrorOpeningDevice and
\* leave the rates alone.  Otherwise lines 231-235 store the rates.
probe_device(device, hw) ==
    IF ProbeKey(device) \in hw.busy \cup hw.unconf
    THEN [err |-> "SoundIoErrorOpeningDevice", device |-> device]
    ELSE LET min_sample_rate == min_rate_of(hw)
             max_sample_rate == max_rate_of(hw)
             d1 == [device EXCEPT !.sample_rate_min = min_sample_rate]
             d2 == [d1 EXCEPT !.sample_rate_min = max_sample_rate]
         IN  [err |-> "None",
              device |-> [d2 EXCEPT !.sample_rate_default =
                 IF min_sample_rate <= MAX_SAMPLE_RATE
                    /\ MAX_SAMPLE_RATE <= max_sample_rate
                 THEN MAX_SAMPLE_RATE ELSE max_sample_rate]]

\* lines 355 and 464: whether the scan stops at a probe_device that returned
\* err; the calls discard the return value
ProbeFatal_Checked(err) == err # "None"

ProbeFatal(err) == FALSE

\* The scan is a walk over fallible calls.  acc.calls counts the calls made so
\* far; the environment fails call number fail_at (0: no call fails).
\* n calls whose results are tested together, failing with err.
Fallible(acc, n, err, fail_at) ==
    IF acc.err # "None" THEN acc
    ELSE IF fail_at \in (acc.calls + 1)..(acc.calls + n)
         THEN [acc EXCEPT !.calls = acc.calls + n, !.err = err]
         ELSE [acc EXCEPT !.calls = acc.calls + n]

\* device_list->append(device) with the default-index bookkeeping done before
AppendDevice(info, device, is_default) ==
    IF device.purpose = "Output"
    THEN [info EXCEPT
            !.default_output_index =
                IF is_default THEN Len(info.output_devices) ELSE @,
            !.output_devices = Append(@, device)]
    ELSE [info EXCEPT
            !.default_input_index =
                IF is_default THEN Len(info.input_devices) ELSE @,
            !.input_devices = Append(@, device)]

\* lines 317-364 (hint scan) and 434-470 (raw scan): create the descriptor,
\* allocate its strings, probe it, append it
AddDevice(acc, device, is_default, hw, fail_at) ==
    LET a1 == Fallible(acc, 1, "SoundIoErrorNoMem", fail_at)
        a2 == Fallible(a1, 2, "SoundIoErrorNoMem", fail_at)
        a3 == Fallible(a2, 1, "SoundIoErrorNoMem", fail_at)
        probe == probe_device(device, hw)
    IN  IF a3.err # "None" THEN a3
        ELSE IF ProbeFatal(probe.err) THEN [a3 EXCEPT !.err = probe.err]
        ELSE [a3 EXCEPT !.info = AppendDevice(@, probe.device, is_default)]

\* the values snd_device_name_get_hint gives for IOID
io_values == {NullStr, Some("Input"), Some("Output")}

\* lines 284-365: one hint that is not excluded.  str_partition_on_char reads
\* through descr, so a hint without DESC ends the process with a fault at
\* line 76; an IOID that is neither Input nor Output ends it in soundio_panic
\* (line 298); otherwise the stream loop runs
HintStreams(acc, hint, hw, fail_at) ==
    IF hint.DESC = NullStr THEN [acc EXCEPT !.err = "Fault"]
    ELSE IF hint.IOID \notin io_values THEN [acc EXCEPT !.err = "Panic"]
    ELSE
    LET part == str_partition_on_char(hint.DESC[1], "\n")
        descr == part.head
        descr1 == part.tail
        dev(purpose) == NewDevice(hint.NAME, device_description(descr, descr1),
                                  FALSE, purpose)
        isdef == str_has_prefix(hint.NAME, "default:")
        a1 == IF StreamSkipped(stream_types[1], hint.IOID, descr1) THEN acc
              ELSE AddDevice(acc, dev("Output"), isdef, hw, fail_at)
        a2 == IF a1.err # "None"
                 \/ StreamSkipped(stream_types[2], hint.IOID, descr1) THEN a1
              ELSE AddDevice(a1, dev("Input"), isdef, hw, fail_at)
    IN  a2

\* lines 262-369: the hint loop
RECURSIVE ScanHints(_, _, _, _, _)
ScanHints(acc, hints, i, hw, fail_at) ==
    IF acc.err # "None" \/ i > Len(hints) THEN acc
    ELSE IF ExcludedHint(hints[i].NAME)
         THEN ScanHints(acc, hints, i + 1, hw, fail_at)
         ELSE ScanHints(HintStreams(acc, hints[i], hw, fail_at),
                        hints, i + 1, hw, fail_at)

\* lines 422-424: snd_ctl_pcm_info answers -ENOENT for a combination of card,
\* sub-device and direction that does not exist, and the stream is skipped
PcmInfoAbsent_Never(exists) == FALSE

PcmInfoAbsent(exists) == ~exists

\* lines 418-471: the stream loop of one PCM sub-device
PcmStreams(acc, card, pcm, hw, fail_at) ==
    LET dev(purpose) ==
            NewDevice(raw_device_name(card.index, pcm.index),
                      raw_device_description(card.name, pcm.name),
                      TRUE, purpose)
        one(a, exists, purpose) ==
            IF a.err # "None" THEN a
            ELSE LET q == Fallible(a, 1, "SoundIoErrorSystemResources", fail_at)
                 IN  IF q.err # "None" \/ PcmInfoAbsent(exists) THEN q
                     ELSE AddDevice(q, dev(purpose), FALSE, hw, fail_at)
    IN  one(one(acc, pcm.playback, "Output"), pcm.capture, "Input")

\* lines 406-472: the sub-device loop of one card; every iteration asks
\* snd_ctl_pcm_next_device, the last one learns that there is none left
RECURSIVE ScanPcms(_, _, _, _, _)
ScanPcms(acc, card, j, hw, fail_at) ==
    IF acc.err # "None" THEN acc
    ELSE LET q == Fallible(acc, 1, "SoundIoErrorSystemResources", fail_at)
         IN  IF q.err # "None" \/ j > Len(card.pcms) THEN q
             ELSE ScanPcms(PcmStreams(q, card, card.pcms[j], hw, fail_at),
                           card, j + 1, hw, fail_at)

\* lines 384-478: the card loop; snd_ctl_open answering -ENOENT ends it
RECURSIVE ScanCards(_, _, _, _)
ScanCards(acc, k, hw, fail_at) ==
    IF acc.err # "None" \/ k > Len(hw.cards) THEN acc
    ELSE IF hw.cards[k].ctl_enoent THEN acc
    ELSE LET card == hw.cards[k]
             a1 == Fallible(acc, 1, "SoundIoErrorOpeningDevice", fail_at)
             a2 == Fallible(a1, 1, "SoundIoErrorSystemResources", fail_at)
             a3 == ScanPcms(a2, card, 1, hw, fail_at)
             a4 == Fallible(a3, 1, "SoundIoErrorSystemResources", fail_at)
         IN  ScanCards(a4, k + 1, hw, fail_at)

\* lines 249-478: the whole scan.  err is the value refresh_devices returns
\* when it is not "None"; info is the local devices_info otherwise
EnumerationPass(hw, fail_at) ==
    LET a0 == [info |-> EmptyDevicesInfo, calls |-> 0, err |-> "None"]
        a1 == Fallible(a0, 1, "SoundIoErrorNoMem", fail_at)
        a2 == Fallible(a1, 1, "SoundIoErrorNoMem", fail_at)
        a3 == ScanHints(a2, hw.hints, 1, hw, fail_at)
        a4 == Fallible(a3, 1, "SoundIoErrorSystemResources", fail_at)
    IN  ScanCards(a4, 1, hw, fail_at)

(* ------------------------------------------------------------------ *)
(* The hardware the watcher observes                                   *)
(* ------------------------------------------------------------------ *)

\* one entry of the hint list: NAME is a string, DESC and IOID may be absent
Hint(name, desc, io) == [NAME |-> name, DESC |-> desc, IOID |-> io]

Pcm(index, name, playback, capture) ==
    [index |-> index, name |-> name, playback |-> playback, capture |-> capture]

Card(index, name, ctl_enoent, pcms) ==
    [index |-> index, name |-> name, ctl_enoent |-> ctl_enoent, pcms |-> pcms]

\* the built-in card: one logical default device, one playback-only PCM
BaseHints ==
    << Hint("default:CARD", Some("PCH\nDefault"), NullStr),
       Hint("null", Some("Discard"), NullStr),
       Hint("sysdefault:CARD", Some("PCH\nDefault"), NullStr) >>

BaseCards == << Card(0, "PCH", FALSE, <<Pcm(0, "Analog", TRUE, FALSE)>>) >>

\* a hot-plugged USB capture device
UsbHints == << Hint("hw:CARD=USB", Some("USB\nDirect"), Some("Input")) >>

UsbCards == << Card(1, "USB", FALSE, <<Pcm(0, "USB", FALSE, TRUE)>>) >>

\* what the device-hint registry and the card registry hold
HwOf(usb_plugged) ==
    [hints |-> IF usb_plugged THEN BaseHints \o UsbHints ELSE BaseHints,
     cards |-> IF usb_plugged THEN BaseCards \o UsbCards ELSE BaseCards,
     busy |-> {}, unconf |-> {},
     rate_min |-> 44100, min_dir |-> 0, rate_max |-> 96000, max_dir |-> 0]

(* ------------------------------------------------------------------ *)
(* inotify records of /dev/snd                                         *)
(* ------------------------------------------------------------------ *)

NotifyEvent(mask, len, name) == [mask |-> mask, len |-> len, name |-> name]

\* lines 544-556 without the test of IN_ISDIR at lines 546-547
Qualifies_DirectoriesToo(event) ==
    /\ ("IN_CREATE" \in event.mask) \/ ("IN_DELETE" \in event.mask)
    /\ event.len # 0 /\ event.len >= MIN_EVENT_NAME_LEN
    /\ str_has_prefix(event.name, "pcm")

\* lines 544-556: the record asks for a rescan
Qualifies(event) ==
    /\ ("IN_CREATE" \in event.mask) \/ ("IN_DELETE" \in event.mask)
    /\ "IN_ISDIR" \notin event.mask
    /\ event.len # 0 /\ event.len >= MIN_EVENT_NAME_LEN
    /\ str_has_prefix(event.name, "pcm")

\* a PCM node of the USB card appears or disappears
PcmNodeEvent(usb_plugged) ==
    NotifyEvent({IF usb_plugged THEN "IN_DELETE" ELSE "IN_CREATE"}, 16, "pcmC1D0c")

\* unrelated activity in the watched directory
ControlNodeEvent == NotifyEvent({"IN_CREATE"}, 16, "controlC1")

\* the sequences over S of length n at most
RECURSIVE ListsUpTo(_, _)
ListsUpTo(S, n) ==
    IF n = 0 THEN {<<>>}
    ELSE LET shorter == ListsUpTo(S, n - 1)
         IN  shorter \cup {Append(l, x) : l \in {m \in shorter : Len(m) = n - 1}, x \in S}

(* ------------------------------------------------------------------ *)
(* State                                                               *)
(* ------------------------------------------------------------------ *)

VARIABLES
    \* struct SoundIoAlsa and soundio->safe_devices_info
    abort_flag,          \* atomic_flag: TRUE is "set", which means keep running
    have_devices_flag,
    ready_devices_info,  \* the exchange slot
    safe_devices_info,   \* the consumer's current inventory
    mutex,               \* "free" or the thread that holds sia->mutex
    notify_q,            \* records queued on notify_fd
    pipe,                \* bytes queued in notify_pipe_fd
    usb_plugged,         \* the hardware
    scan_results,        \* what a scan of the present hardware can come to
    \* device_thread_run
    w_pc, poll_num, revents, got_rescan_event, devices_info, w_err,
    poll_errno,          \* errno after a poll that returned -1
    \* the consumer thread: flush_events, wait_events, destroy_alsa
    c_pc, c_op, change, old_devices_info,
    \* another application thread: wakeup
    a_pc,
    \* history
    pub_count,           \* publishes so far
    cb_count,            \* on_devices_change invocations so far
    claim_count,         \* snapshots flush_events has taken out of the slot so far
    events_posted, wakeups_called,
    cycle_passes,        \* Enumeration Passes started in the current wake cycle
    cycle_qualifying,    \* qualifying records drained in the current wake cycle
    abort_at_poll,       \* destroy_alsa cleared abort_flag while the watcher was in poll
    wk_in_wait,          \* wakeup signalled during the current wait_events call
    woken_early,         \* wakeup signalled the current call inside block_until_have_devices
    claims_since_pub,    \* snapshots taken since the last publish
    safe_at_entry, cb_at_entry,
    e_prior,             \* slot, flag and inventory when the pass started
    call_flushes,        \* claims under the mutex (lines 599-608) in the current call
    pub_in_wait,         \* a publish has woken the current wait_events call
    \* the Enumeration Pass on its own
    e_pc, e_hw, e_fail_at, e_err,
    \* soundio_alsa_init
    backend_data,        \* soundio->backend_data: "null" or "sia"
    os,                  \* the objects the fields of struct SoundIoAlsa stand for
    i_fail,              \* the call of soundio_alsa_init that fails, and its errno
    i_ret,               \* what soundio_alsa_init has returned
    \* one wake cycle of device_thread_run on its own
    w_in,                \* what the watcher finds when it wakes
    \* history of soundio_destroy_devices_info
    released             \* the bag of the snapshots released so far, by id

hist == <<pub_count, cb_count, claim_count, events_posted, wakeups_called,
          cycle_passes, cycle_qualifying, abort_at_poll,
          wk_in_wait, woken_early, claims_since_pub, safe_at_entry, cb_at_entry,
          e_prior, call_flushes, pub_in_wait>>

shared == <<abort_flag, have_devices_flag, ready_devices_info, safe_devices_info,
            mutex, notify_q, pipe, usb_plugged, scan_results>>

watcher ==
    <<w_pc, poll_num, poll_errno, revents, got_rescan_event, devices_info, w_err>>

consumer == <<c_pc, c_op, change, old_devices_info>>

enum == <<e_pc, e_hw, e_fail_at, e_err>>

alsa_init == <<backend_data, os, i_fail, i_ret>>

vars ==
    <<shared, watcher, consumer, a_pc, hist, enum, alsa_init, w_in, released>>

nullptr == [id |-> 0]

\* no hardware: the value of e_hw while the threads run
NoHw ==
    [hints |-> <<>>, cards |-> <<>>, busy |-> {}, unconf |-> {},
     rate_min |-> 0, min_dir |-> 0, rate_max |-> 0, max_dir |-> 0]

\* create<SoundIoAlsa>(): zero-filled storage.  Every field of os tells
\* whether the object of that field of struct SoundIoAlsa exists; fd0_closed
\* tells that close() has been called on descriptor 0, which is what the
\* zero-filled notify_pipe_fd names as long as pipe2 has not filled it
NoObjects ==
    [mutex |-> FALSE, cond |-> FALSE, notify_fd |-> FALSE, notify_wd |-> FALSE,
     pipe_fd |-> FALSE, thread |-> FALSE, fd0_closed |-> FALSE]

\* the objects after a soundio_alsa_init in which every call succeeded
AllObjects ==
    [mutex |-> TRUE, cond |-> TRUE, notify_fd |-> TRUE, notify_wd |-> TRUE,
     pipe_fd |-> TRUE, thread |-> TRUE, fd0_closed |-> FALSE]

\* lines 51-71 of destroy_alsa: the thread is joined if there is one, the
\* condition and the mutex are destroyed if they exist, both ends of
\* notify_pipe_fd and notify_fd are closed
Teardown(o) ==
    [mutex |-> FALSE, cond |-> FALSE, notify_fd |-> FALSE, notify_wd |-> FALSE,
     pipe_fd |-> FALSE, thread |-> FALSE, fd0_closed |-> (o.fd0_closed \/ ~o.pipe_fd)]

\* soundio_destroy_devices_info(info), called at lines 63, 481 and 613: the
\* snapshot is released; nothing happens for a null pointer
soundio_destroy_devices_info(bag, info) ==
    IF info = nullptr THEN bag ELSE bag (+) SetToBag({info.id})

\* the value of w_in while the watcher is not run on its own
NoWake == [records |-> <<>>, pipe |-> 0, aborting |-> FALSE]

\* no call of soundio_alsa_init fails
NoFault == [step |-> "none", errno |-> "none"]

\* what the scan of refresh_devices can come to on hardware hw: it completes
\* with info, or one of its fallible calls fails with one of errs and the
\* partial devices_info is dropped
ScanResults(hw) ==
    LET pass == EnumerationPass(hw, 0)
    IN  [info |-> pass.info,
         errs |-> {EnumerationPass(hw, fail_at).err : fail_at \in 1..pass.calls}]

\* the scan outcomes for the two states of the hardware
ScanUnplugged == ScanResults(HwOf(FALSE))

ScanPlugged == ScanResults(HwOf(TRUE))

ScanNow(plugged) == IF plugged THEN ScanPlugged ELSE ScanUnplugged

\* the process runs until soundio_panic ends it
Running == w_pc # "panic"

\* soundio_os_cond_signal: a thread blocked in soundio_os_cond_wait is woken
\* and has to take the mutex again
cond_signal(pc) ==
    CASE pc = "buhd_wait" -> "buhd_wake"
      [] pc = "wait_blocked" -> "wait_wake"
      [] OTHER -> pc

\* the state soundio_alsa_init leaves when it succeeds (lines 709-803): the
\* wake channel holds one byte, the watcher thread is about to poll
Init ==
    /\ abort_flag = TRUE
    /\ have_devices_flag = FALSE
    /\ ready_devices_info = nullptr
    /\ safe_devices_info = nullptr
    /\ mutex = "free"
    /\ notify_q = <<>>
    /\ pipe = 1
    /\ usb_plugged = FALSE
    /\ scan_results = ScanNow(FALSE)
    /\ w_pc = "poll" /\ poll_num = 0 /\ poll_errno = "none"
    /\ revents = [notify |-> FALSE, pipe |-> FALSE]
    /\ got_rescan_event = FALSE
    /\ devices_info = nullptr
    /\ w_err = "None"
    /\ c_pc = "idle" /\ c_op = "none" /\ change = FALSE
    /\ old_devices_info = nullptr
    /\ a_pc = "idle"
    /\ pub_count = 0 /\ cb_count = 0 /\ claim_count = 0
    /\ events_posted = 0 /\ wakeups_called = 0
    /\ cycle_passes = 0 /\ cycle_qualifying = 0
    /\ abort_at_poll = FALSE
    /\ wk_in_wait = FALSE /\ woken_early = FALSE
    /\ claims_since_pub = 0
    /\ safe_at_entry = nullptr /\ cb_at_entry = 0
    /\ e_prior = [ready |-> nullptr, have |-> FALSE, safe |-> nullptr]
    /\ call_flushes = 0 /\ pub_in_wait = FALSE
    /\ e_pc = "off" /\ e_hw = NoHw /\ e_fail_at = 0 /\ e_err = "None"
    /\ backend_data = "sia" /\ os = AllObjects
    /\ i_fail = NoFault /\ i_ret = "None"
    /\ w_in = NoWake
    /\ released = EmptyBag

(* ------------------------------------------------------------------ *)
(* The environment: hardware changes                                   *)
(* ------------------------------------------------------------------ *)

\* the USB card is plugged or unplugged: a PCM node event is queued
HardwareChange ==
    /\ Running /\ os.notify_wd
    /\ events_posted < MaxEvents
    /\ notify_q' = Append(notify_q, PcmNodeEvent(usb_plugged))
    /\ usb_plugged' = ~usb_plugged
    /\ scan_results' = ScanNow(~usb_plugged)
    /\ events_posted' = events_posted + 1
    /\ UNCHANGED <<abort_flag, have_devices_flag, ready_devices_info,
                   safe_devices_info, mutex, pipe>>
    /\ UNCHANGED <<watcher, consumer, a_pc, enum, alsa_init, w_in, released>>
    /\ UNCHANGED <<claim_count, pub_count, cb_count, wakeups_called, cycle_passes,
                   cycle_qualifying, abort_at_poll, wk_in_wait, woken_early,
                   claims_since_pub, safe_at_entry, cb_at_entry, e_prior,
                   call_flushes, pub_in_wait>>

\* a control node event: activity that does not qualify
UnrelatedChange ==
    /\ Running /\ os.notify_wd
    /\ events_posted < MaxEvents
    /\ notify_q' = Append(notify_q, ControlNodeEvent)
    /\ events_posted' = events_posted + 1
    /\ UNCHANGED <<abort_flag, have_devices_flag, ready_devices_info,
                   safe_devices_info, mutex, pipe, usb_plugged, scan_results>>
    /\ UNCHANGED <<watcher, consumer, a_pc, enum, alsa_init, w_in, released>>
    /\ UNCHANGED <<claim_count, pub_count, cb_count, wakeups_called, cycle_passes,
                   cycle_qualifying, abort_at_poll, wk_in_wait, woken_early,
                   claims_since_pub, safe_at_entry, cb_at_entry, e_prior,
                   call_flushes, pub_in_wait>>

(* ------------------------------------------------------------------ *)
(* device_thread_run (lines 489-581)                                   *)
(* ------------------------------------------------------------------ *)

\* line 511: the loop ends when test_and_set finds the flag cleared
AbortSeen_EventsFirst(previous, rev) == ~previous /\ ~rev.notify

AbortSeen(previous, rev) == ~previous

\* line 580: where the loop goes once refresh_devices has returned
AfterRefresh_PerEvent == "read_notify"

AfterRefresh == "poll"

\* line 510: poll returns with at least one descriptor readable
W_Poll ==
    /\ Running /\ w_pc = "poll"
    /\ notify_q # <<>> \/ pipe > 0
    /\ revents' = [notify |-> notify_q # <<>>, pipe |-> pipe > 0]
    /\ poll_num' = (IF notify_q # <<>> THEN 1 ELSE 0) + (IF pipe > 0 THEN 1 ELSE 0)
    /\ poll_errno' = "none"
    /\ w_pc' = "check_abort"
    /\ cycle_passes' = 0 /\ cycle_qualifying' = 0
    /\ UNCHANGED <<shared, got_rescan_event, devices_info, w_err, consumer, a_pc, enum, alsa_init, w_in, released>>
    /\ UNCHANGED <<claim_count, pub_count, cb_count, events_posted, wakeups_called,
                   abort_at_poll, wk_in_wait, woken_early, claims_since_pub,
                   safe_at_entry, cb_at_entry, e_prior,
                   call_flushes, pub_in_wait>>

\* line 510: poll returns -1: a signal has interrupted it (EINTR), or the
\* kernel has no memory for it (ENOMEM)
PollFails(errno) ==
    /\ Running /\ w_pc = "poll"
    /\ revents' = [notify |-> FALSE, pipe |-> FALSE]
    /\ poll_num' = -1
    /\ poll_errno' = errno
    /\ w_pc' = "check_abort"
    /\ cycle_passes' = 0 /\ cycle_qualifying' = 0
    /\ UNCHANGED <<shared, got_rescan_event, devices_info, w_err, consumer, a_pc, enum, alsa_init, w_in, released>>
    /\ UNCHANGED <<claim_count, pub_count, cb_count, events_posted, wakeups_called,
                   abort_at_poll, wk_in_wait, woken_early, claims_since_pub,
                   safe_at_entry, cb_at_entry, e_prior,
                   call_flushes, pub_in_wait>>

W_PollEintr == PollFails("EINTR")

W_PollEnomem == PollFails("ENOMEM")

\* where the loop body goes after the inotify loop (line 561)
AfterNotify(rev, got) ==
    IF rev.pipe THEN "read_pipe" ELSE IF got THEN "scan" ELSE "poll"

\* lines 561-562: a readable wake channel asks for a rescan
GotAfterNotify_EventsOnly(rev, got) == got

GotAfterNotify(rev, got) == got \/ rev.pipe

\* lines 511-524: abort check; after a poll that returned -1 the loop goes
\* round for EINTR and soundio_panic ends the process for ENOMEM;
\* got_rescan_event = false
W_CheckAbort ==
    /\ Running /\ w_pc = "check_abort"
    /\ abort_flag' = TRUE
    /\ IF AbortSeen(abort_flag, revents)
       THEN w_pc' = "exited" /\ UNCHANGED got_rescan_event
       ELSE IF poll_num = -1
            THEN /\ w_pc' = (IF poll_errno = "EINTR" THEN "poll" ELSE "panic")
                 /\ UNCHANGED got_rescan_event
       ELSE IF poll_num <= 0
            THEN w_pc' = "poll" /\ UNCHANGED got_rescan_event
            ELSE /\ got_rescan_event' =
                       IF revents.notify THEN FALSE ELSE GotAfterNotify(revents, FALSE)
                 /\ w_pc' = IF revents.notify THEN "read_notify"
                            ELSE AfterNotify(revents, FALSE)
    /\ UNCHANGED <<have_devices_flag, ready_devices_info, safe_devices_info,
                   mutex, notify_q, pipe, usb_plugged, scan_results>>
    /\ UNCHANGED <<poll_num, poll_errno, revents, devices_info, w_err, consumer, a_pc, hist, enum, alsa_init, w_in, released>>

\* lines 526-559: one read of notify_fd; it takes every queued record, and the
\* loop ends at the read that finds none
W_ReadNotify ==
    /\ Running /\ w_pc = "read_notify"
    /\ IF notify_q # <<>>
       THEN /\ notify_q' = <<>>
            /\ got_rescan_event' =
                  (got_rescan_event \/ \E i \in 1..Len(notify_q) : Qualifies(notify_q[i]))
            /\ cycle_qualifying' = cycle_qualifying
                  + Cardinality({i \in 1..Len(notify_q) : Qualifies(notify_q[i])})
            /\ UNCHANGED w_pc
       ELSE /\ w_pc' = AfterNotify(revents, got_rescan_event)
            /\ got_rescan_event' = GotAfterNotify(revents, got_rescan_event)
            /\ UNCHANGED <<notify_q, cycle_qualifying>>
    /\ UNCHANGED <<abort_flag, have_devices_flag, ready_devices_info,
                   safe_devices_info, mutex, pipe, usb_plugged, scan_results>>
    /\ UNCHANGED <<poll_num, poll_errno, revents, devices_info, w_err, consumer, a_pc, enum, alsa_init, w_in, released>>
    /\ UNCHANGED <<claim_count, pub_count, cb_count, events_posted, wakeups_called,
                   cycle_passes, abort_at_poll, wk_in_wait, woken_early,
                   claims_since_pub, safe_at_entry, cb_at_entry, e_prior,
                   call_flushes, pub_in_wait>>

\* lines 561-576: one read of the wake channel; the loop ends at the read that
\* finds it empty, and line 576 tests got_rescan_event
W_ReadPipe ==
    /\ Running /\ w_pc = "read_pipe"
    /\ IF pipe > 0
       THEN pipe' = 0 /\ UNCHANGED w_pc
       ELSE /\ w_pc' = (IF got_rescan_event THEN "scan" ELSE "poll")
            /\ UNCHANGED pipe
    /\ UNCHANGED <<abort_flag, have_devices_flag, ready_devices_info,
                   safe_devices_info, mutex, notify_q, usb_plugged, scan_results>>
    /\ UNCHANGED <<poll_num, poll_errno, revents, got_rescan_event, devices_info, w_err,
                   consumer, a_pc, hist, enum, alsa_init, w_in, released>>

\* refresh_devices returns an error instead of publishing
ScanFailed_OnlyNoMem(res) == res.err = "SoundIoErrorNoMem"

ScanFailed(res) == res.err # "None"

\* lines 481-483 under the mutex: the slot after a publish
Publish(info, id) == [id |-> id, info |-> info]

\* line 482: the new snapshot is stored whatever the slot holds
publish_store_KeepUnclaimed(ready, new) == IF ready # nullptr THEN ready ELSE new

publish_store(ready, new) == new

\* lines 576-578 with 249-478: the scan of refresh_devices; an error return
\* ends the process in soundio_panic
W_Scan ==
    /\ Running /\ w_pc = "scan"
    /\ \E err \in scan_results.errs \cup {"None"} :
       LET res == [err |-> err, info |-> scan_results.info] IN
         /\ w_err' = res.err
         /\ IF ScanFailed(res)
            THEN w_pc' = "panic" /\ UNCHANGED devices_info
            ELSE w_pc' = "pub_lock" /\ devices_info' = res.info
    /\ cycle_passes' = cycle_passes + 1
    /\ UNCHANGED <<shared, poll_num, poll_errno, revents, got_rescan_event, consumer, a_pc, enum, alsa_init, w_in, released>>
    /\ UNCHANGED <<claim_count, pub_count, cb_count, events_posted, wakeups_called,
                   cycle_qualifying, abort_at_poll, wk_in_wait, woken_early,
                   claims_since_pub, safe_at_entry, cb_at_entry, e_prior,
                   call_flushes, pub_in_wait>>

\* line 480
W_PubLock ==
    /\ Running /\ w_pc = "pub_lock"
    /\ mutex = "free"
    /\ mutex' = "watcher"
    /\ w_pc' = "publish"
    /\ UNCHANGED <<abort_flag, have_devices_flag, ready_devices_info,
                   safe_devices_info, notify_q, pipe, usb_plugged, scan_results>>
    /\ UNCHANGED <<poll_num, poll_errno, revents, got_rescan_event, devices_info, w_err,
                   consumer, a_pc, hist, enum, alsa_init, w_in, released>>

\* lines 481-486 and 580: the unclaimed snapshot is destroyed, the new one
\* stored, the flag set, the condition signalled and the mutex released
W_Publish ==
    /\ Running /\ w_pc = "publish"
    /\ released' = soundio_destroy_devices_info(released, ready_devices_info)
    /\ ready_devices_info' =
          publish_store(ready_devices_info, Publish(devices_info, pub_count + 1))
    /\ have_devices_flag' = TRUE
    /\ c_pc' = cond_signal(c_pc)
    /\ pub_count' = pub_count + 1
    /\ claims_since_pub' = 0
    /\ devices_info' = nullptr
    /\ mutex' = "free"
    /\ w_pc' = AfterRefresh
    /\ pub_in_wait' = (pub_in_wait \/ c_pc = "wait_blocked")
    /\ UNCHANGED <<abort_flag, safe_devices_info, notify_q, pipe, usb_plugged, scan_results>>
    /\ UNCHANGED <<poll_num, poll_errno, revents, got_rescan_event, w_err,
                   c_op, change, old_devices_info, a_pc, enum, alsa_init, w_in>>
    /\ UNCHANGED <<claim_count, cb_count, events_posted, wakeups_called,
                   cycle_passes, cycle_qualifying, abort_at_poll, wk_in_wait,
                   woken_early, safe_at_entry, cb_at_entry, e_prior,
                   call_flushes>>

(* ------------------------------------------------------------------ *)
(* The consumer thread: flush_events, wait_events (lines 583-622)      *)
(* ------------------------------------------------------------------ *)

\* line 587: the loop of block_until_have_devices ends; woken tells that the
\* test follows a return of soundio_os_cond_wait
GateOpen_TestedOnce(have, woken) == have \/ woken

GateOpen(have, woken) == have

\* lines 601-606: the claim under the mutex
flush_swap_KeepSlot(ready, safe) ==
    IF ready # nullptr
    THEN [old |-> safe, safe |-> ready, ready |-> ready, change |-> TRUE]
    ELSE [old |-> nullptr, safe |-> safe, ready |-> ready, change |-> FALSE]

flush_swap_ReleaseFirst(ready, safe) ==
    IF ready # nullptr
    THEN [old |-> nullptr, safe |-> ready, ready |-> nullptr, change |-> TRUE]
    ELSE [old |-> nullptr, safe |-> safe, ready |-> ready, change |-> FALSE]

flush_swap(ready, safe) ==
    IF ready # nullptr
    THEN [old |-> safe, safe |-> ready, ready |-> nullptr, change |-> TRUE]
    ELSE [old |-> nullptr, safe |-> safe, ready |-> ready, change |-> FALSE]

\* line 610: on_devices_change is called
CallbackFires_Always(chg) == TRUE

CallbackFires(chg) == chg

\* the application calls flush_events or wait_events; line 584 is the
\* unlocked test of have_devices_flag
C_Call ==
    /\ Running /\ c_pc = "idle"
    /\ \E op \in {"flush", "wait"} : c_op' = op
    /\ c_pc' = IF have_devices_flag THEN "flush_lock" ELSE "buhd_lock"
    /\ wk_in_wait' = FALSE /\ woken_early' = FALSE
    /\ safe_at_entry' = safe_devices_info /\ cb_at_entry' = cb_count
    /\ change' = FALSE /\ old_devices_info' = nullptr
    /\ UNCHANGED <<shared, watcher, a_pc, enum, alsa_init, w_in, released>>
    /\ UNCHANGED <<claim_count, pub_count, cb_count, events_posted, wakeups_called,
                   cycle_passes, cycle_qualifying, abort_at_poll,
                   claims_since_pub, e_prior,
                   call_flushes, pub_in_wait>>

\* lines 586, 599, 619 and the return of soundio_os_cond_wait at line 588: the
\* mutex is taken
C_Lock ==
    /\ Running
    /\ c_pc \in {"buhd_lock", "buhd_wake", "flush_lock", "wait_lock"}
    /\ mutex = "free"
    /\ mutex' = "consumer"
    /\ c_pc' = CASE c_pc = "buhd_lock" -> "buhd_loop"
                 [] c_pc = "buhd_wake" -> "buhd_recheck"
                 [] c_pc = "flush_lock" -> "flush_swap"
                 [] c_pc = "wait_lock" -> "wait_cond"
    /\ UNCHANGED <<abort_flag, have_devices_flag, ready_devices_info,
                   safe_devices_info, notify_q, pipe, usb_plugged, scan_results>>
    /\ UNCHANGED <<watcher, c_op, change, old_devices_info, a_pc, hist, enum, alsa_init, w_in, released>>

\* lines 587-589: test the flag; leave the loop and release the mutex, or
\* soundio_os_cond_wait releases the mutex and blocks
C_BuhdLoop ==
    /\ Running /\ c_pc \in {"buhd_loop", "buhd_recheck"}
    /\ c_pc' = IF GateOpen(have_devices_flag, c_pc = "buhd_recheck")
               THEN "flush_lock" ELSE "buhd_wait"
    /\ mutex' = "free"
    /\ UNCHANGED <<abort_flag, have_devices_flag, ready_devices_info,
                   safe_devices_info, notify_q, pipe, usb_plugged, scan_results>>
    /\ UNCHANGED <<watcher, c_op, change, old_devices_info, a_pc, hist, enum, alsa_init, w_in, released>>

\* lines 601-608
C_FlushSwap ==
    /\ Running /\ c_pc = "flush_swap"
    /\ LET r == flush_swap(ready_devices_info, safe_devices_info)
       IN  /\ old_devices_info' = r.old
           /\ safe_devices_info' = r.safe
           /\ ready_devices_info' = r.ready
           /\ change' = r.change
           /\ claims_since_pub' = claims_since_pub + (IF r.change THEN 1 ELSE 0)
           /\ claim_count' = claim_count + (IF r.change THEN 1 ELSE 0)
    /\ call_flushes' = call_flushes + 1
    /\ mutex' = "free"
    /\ c_pc' = "flush_cb"
    /\ UNCHANGED <<abort_flag, have_devices_flag, notify_q, pipe, usb_plugged, scan_results>>
    /\ UNCHANGED <<watcher, c_op, a_pc, enum, alsa_init, w_in, released>>
    /\ UNCHANGED <<pub_count, cb_count, events_posted, wakeups_called,
                   cycle_passes, cycle_qualifying, abort_at_poll, wk_in_wait,
                   woken_early, safe_at_entry, cb_at_entry, e_prior,
                   pub_in_wait>>

\* lines 610-611
C_FlushCallback ==
    /\ Running /\ c_pc = "flush_cb"
    /\ cb_count' = cb_count + (IF CallbackFires(change) THEN 1 ELSE 0)
    /\ c_pc' = "flush_destroy"
    /\ UNCHANGED <<shared, watcher, c_op, change, old_devices_info, a_pc, enum, alsa_init, w_in, released>>
    /\ UNCHANGED <<claim_count, pub_count, events_posted, wakeups_called,
                   cycle_passes, cycle_qualifying, abort_at_poll, wk_in_wait,
                   woken_early, claims_since_pub, safe_at_entry, cb_at_entry, e_prior,
                   call_flushes, pub_in_wait>>

\* line 613: the snapshot flush_events releases
flush_released_Current(old, safe) == safe

flush_released(old, safe) == old

\* line 613, then flush_events returns: to the application, or to line 619
C_FlushDestroy ==
    /\ Running /\ c_pc = "flush_destroy"
    /\ released' = soundio_destroy_devices_info(
                       released, flush_released(old_devices_info, safe_devices_info))
    /\ old_devices_info' = nullptr
    /\ IF c_op = "wait"
       THEN c_pc' = "wait_lock" /\ UNCHANGED <<c_op, call_flushes>>
       ELSE c_pc' = "idle" /\ c_op' = "none" /\ call_flushes' = 0
    /\ safe_at_entry' = nullptr /\ cb_at_entry' = 0 /\ woken_early' = FALSE
    /\ change' = FALSE
    /\ UNCHANGED <<shared, watcher, a_pc, enum, alsa_init, w_in>>
    /\ UNCHANGED <<claim_count, pub_count, cb_count, events_posted, wakeups_called,
                   cycle_passes, cycle_qualifying, abort_at_poll, wk_in_wait,
                   claims_since_pub, e_prior,
                   pub_in_wait>>

\* line 620: soundio_os_cond_wait releases the mutex and blocks
C_WaitCond ==
    /\ Running /\ c_pc = "wait_cond"
    /\ mutex' = "free"
    /\ c_pc' = "wait_blocked"
    /\ UNCHANGED <<abort_flag, have_devices_flag, ready_devices_info,
                   safe_devices_info, notify_q, pipe, usb_plugged, scan_results>>
    /\ UNCHANGED <<watcher, c_op, change, old_devices_info, a_pc, hist, enum, alsa_init, w_in, released>>

\* a condition wait may return without a signal
C_SpuriousWake ==
    /\ Running /\ c_pc \in {"buhd_wait", "wait_blocked"}
    /\ c_pc' = cond_signal(c_pc)
    /\ UNCHANGED <<shared, watcher, c_op, change, old_devices_info, a_pc, hist, enum, alsa_init, w_in, released>>

\* line 622: where wait_events goes once soundio_os_cond_wait has returned
\* and the mutex is released: back to its caller
AfterCondWait_Reflush == "flush_lock"

AfterCondWait == "idle"

\* lines 620-622: soundio_os_cond_wait takes the mutex again and returns,
\* wait_events releases it and returns
C_WaitReturn ==
    /\ Running /\ c_pc = "wait_wake"
    /\ mutex = "free"
    /\ c_pc' = AfterCondWait
    /\ IF AfterCondWait = "idle"
       THEN c_op' = "none" /\ call_flushes' = 0
       ELSE UNCHANGED <<c_op, call_flushes>>
    /\ wk_in_wait' = FALSE /\ pub_in_wait' = FALSE
    /\ UNCHANGED <<shared, watcher, change, old_devices_info, a_pc, enum, alsa_init, w_in, released>>
    /\ UNCHANGED <<claim_count, pub_count, cb_count, events_posted, wakeups_called,
                   cycle_passes, cycle_qualifying, abort_at_poll, woken_early,
                   claims_since_pub, safe_at_entry, cb_at_entry, e_prior>>

(* ------------------------------------------------------------------ *)
(* wakeup (lines 624-629), called on another application thread        *)
(* ------------------------------------------------------------------ *)

\* the application calls wakeup; line 626 takes the mutex
A_Lock ==
    /\ Running /\ a_pc = "idle"
    /\ c_pc \notin {"d_wake", "d_join", "d_teardown", "destroyed"}
    /\ wakeups_called < MaxWakeups
    /\ mutex = "free"
    /\ mutex' = "app"
    /\ wakeups_called' = wakeups_called + 1
    /\ a_pc' = "wk_signal"
    /\ UNCHANGED <<abort_flag, have_devices_flag, ready_devices_info,
                   safe_devices_info, notify_q, pipe, usb_plugged, scan_results>>
    /\ UNCHANGED <<watcher, consumer, enum, alsa_init, w_in, released>>
    /\ UNCHANGED <<claim_count, pub_count, cb_count, events_posted,
                   cycle_passes, cycle_qualifying, abort_at_poll, wk_in_wait,
                   woken_early, claims_since_pub, safe_at_entry, cb_at_entry, e_prior,
                   call_flushes, pub_in_wait>>

\* lines 626-628: what wakeup does to the slot and to the flag while it holds
\* the mutex: it signals the condition and stores nothing
wakeup_exchange_MarksPublished(ready, have) == [ready |-> ready, have |-> TRUE]

wakeup_exchange(ready, have) == [ready |-> ready, have |-> have]

\* lines 627-628
A_Signal ==
    /\ Running /\ a_pc = "wk_signal"
    /\ c_pc' = cond_signal(c_pc)
    /\ ready_devices_info' = wakeup_exchange(ready_devices_info, have_devices_flag).ready
    /\ have_devices_flag' = wakeup_exchange(ready_devices_info, have_devices_flag).have
    /\ wk_in_wait' = (wk_in_wait \/ c_op = "wait")
    /\ woken_early' = (woken_early \/ c_pc = "buhd_wait")
    /\ mutex' = "free"
    /\ a_pc' = "idle"
    /\ UNCHANGED <<abort_flag, safe_devices_info, notify_q, pipe, usb_plugged, scan_results>>
    /\ UNCHANGED <<watcher, c_op, change, old_devices_info, enum, alsa_init, w_in, released>>
    /\ UNCHANGED <<claim_count, pub_count, cb_count, events_posted, wakeups_called,
                   cycle_passes, cycle_qualifying, abort_at_poll,
                   claims_since_pub, safe_at_entry, cb_at_entry, e_prior,
                   call_flushes, pub_in_wait>>

(* ------------------------------------------------------------------ *)
(* destroy_alsa (lines 46-73), called by the consumer thread           *)
(* ------------------------------------------------------------------ *)

\* the application calls soundio->destroy while no other call is in
\* progress; line 52: abort_flag.clear()
D_Clear ==
    /\ Running /\ c_pc = "idle" /\ a_pc = "idle"
    /\ abort_flag' = FALSE
    /\ abort_at_poll' = (w_pc = "poll")
    /\ c_pc' = "d_wake"
    /\ c_op' = "destroy"
    /\ UNCHANGED <<have_devices_flag, ready_devices_info, safe_devices_info,
                   mutex, notify_q, pipe, usb_plugged, scan_results>>
    /\ UNCHANGED <<watcher, change, old_devices_info, a_pc, enum, alsa_init, w_in, released>>
    /\ UNCHANGED <<claim_count, pub_count, cb_count, events_posted, wakeups_called,
                   cycle_passes, cycle_qualifying, wk_in_wait, woken_early,
                   claims_since_pub, safe_at_entry, cb_at_entry, e_prior,
                   call_flushes, pub_in_wait>>

\* line 53: wakeup_device_poll writes one byte to the wake channel
D_Wake ==
    /\ Running /\ c_pc = "d_wake"
    /\ pipe' = pipe + 1
    /\ c_pc' = "d_join"
    /\ UNCHANGED <<abort_flag, have_devices_flag, ready_devices_info,
                   safe_devices_info, mutex, notify_q, usb_plugged, scan_results>>
    /\ UNCHANGED <<watcher, c_op, change, old_devices_info, a_pc, hist, enum, alsa_init, w_in, released>>

\* line 54: soundio_os_thread_destroy joins the watcher thread
D_Join ==
    /\ Running /\ c_pc = "d_join"
    /\ w_pc = "exited"
    /\ c_pc' = "d_teardown"
    /\ UNCHANGED <<shared, watcher, c_op, change, old_devices_info, a_pc, hist, enum, alsa_init, w_in, released>>

\* lines 57-72: condition, mutex, unclaimed snapshot and descriptors are released
D_Teardown ==
    /\ Running /\ c_pc = "d_teardown"
    /\ released' = soundio_destroy_devices_info(released, ready_devices_info)
    /\ ready_devices_info' = nullptr
    /\ notify_q' = <<>> /\ pipe' = 0
    /\ os' = Teardown(os)
    /\ backend_data' = "null"
    /\ c_pc' = "destroyed"
    /\ UNCHANGED <<abort_flag, have_devices_flag, safe_devices_info, mutex, usb_plugged, scan_results>>
    /\ UNCHANGED <<watcher, c_op, change, old_devices_info, a_pc, hist, enum, i_fail, i_ret, w_in>>

(* ------------------------------------------------------------------ *)
(* Specifications                                                      *)
(* ------------------------------------------------------------------ *)

WatcherStep ==
    \/ W_Poll \/ W_CheckAbort \/ W_ReadNotify \/ W_ReadPipe
    \/ W_Scan \/ W_PubLock \/ W_Publish

ConsumerStep ==
    \/ C_Lock \/ C_BuhdLoop
    \/ C_FlushSwap \/ C_FlushCallback \/ C_FlushDestroy \/ C_WaitCond \/ C_WaitReturn

WakeupStep == A_Signal

DestroyStep == D_Wake \/ D_Join \/ D_Teardown

Next ==
    \/ HardwareChange \/ UnrelatedChange
    \/ W_Poll \/ W_PollEintr \/ W_PollEnomem \/ W_CheckAbort \/ W_ReadNotify \/ W_ReadPipe
    \/ W_Scan \/ W_PubLock \/ W_Publish
    \/ C_Call \/ C_Lock \/ C_BuhdLoop
    \/ C_FlushSwap \/ C_FlushCallback \/ C_FlushDestroy \/ C_WaitCond \/ C_WaitReturn
    \/ C_SpuriousWake
    \/ A_Lock \/ A_Signal
    \/ D_Clear \/ D_Wake \/ D_Join \/ D_Teardown

Spec == Init /\ [][Next]_vars

\* Every thread that can take a step eventually takes one, a thread that
\* keeps asking for the mutex eventually gets it, and poll is not interrupted
\* by signals for ever.  What the application and the hardware decide to do
\* (a call, a hardware change, a signal interrupting poll, a spurious return
\* of a condition wait) is not guaranteed to happen.
FairSpec ==
    /\ Spec
    /\ WF_vars(WatcherStep) /\ SF_vars(W_Poll) /\ SF_vars(W_PubLock)
    /\ WF_vars(ConsumerStep) /\ SF_vars(C_Lock)
    /\ WF_vars(WakeupStep)
    /\ WF_vars(DestroyStep)

(* ------------------------------------------------------------------ *)
(* soundio_alsa_init (lines 709-803), called by the consumer thread,   *)
(* followed by the watcher and by destroy_alsa                         *)
(* ------------------------------------------------------------------ *)

\* the calls of soundio_alsa_init that can fail, with the errno values and
\* error codes the function accounts for
InitFaults ==
    {NoFault}
    \cup {[step |-> st, errno |-> "ENOMEM"] : st \in {"create", "mutex", "cond"}}
    \cup {[step |-> "inotify_init", errno |-> e] : e \in {"EMFILE", "ENFILE", "ENOMEM"}}
    \cup {[step |-> "add_watch", errno |-> e] : e \in {"ENOSPC", "ENOMEM"}}
    \cup {[step |-> "pipe", errno |-> e] : e \in {"EMFILE", "ENFILE"}}
    \cup {[step |-> "thread", errno |-> e] :
             e \in {"SoundIoErrorNoMem", "SoundIoErrorSystemResources"}}

\* lines 743-748
inotify_init_error(errno) ==
    IF errno \in {"EMFILE", "ENFILE"}
    THEN "SoundIoErrorSystemResources" ELSE "SoundIoErrorNoMem"

\* lines 761-766
add_watch_error(errno) ==
    IF errno = "ENOSPC" THEN "SoundIoErrorSystemResources" ELSE "SoundIoErrorNoMem"

\* before soundio_alsa_init: no backend, no watcher thread
InitAlsa ==
    /\ i_fail \in InitFaults
    /\ i_ret = "Pending"
    /\ w_in = NoWake
    /\ released = EmptyBag
    /\ backend_data = "null" /\ os = NoObjects
    /\ abort_flag = FALSE
    /\ have_devices_flag = FALSE
    /\ ready_devices_info = nullptr
    /\ safe_devices_info = nullptr
    /\ mutex = "free"
    /\ notify_q = <<>>
    /\ pipe = 0
    /\ usb_plugged = FALSE
    /\ scan_results = ScanNow(FALSE)
    /\ w_pc = "none" /\ poll_num = 0 /\ poll_errno = "none"
    /\ revents = [notify |-> FALSE, pipe |-> FALSE]
    /\ got_rescan_event = FALSE
    /\ devices_info = nullptr
    /\ w_err = "None"
    /\ c_pc = "i_create" /\ c_op = "init" /\ change = FALSE
    /\ old_devices_info = nullptr
    /\ a_pc = "idle"
    /\ pub_count = 0 /\ cb_count = 0 /\ claim_count = 0
    /\ events_posted = 0 /\ wakeups_called = 0
    /\ cycle_passes = 0 /\ cycle_qualifying = 0
    /\ abort_at_poll = FALSE
    /\ wk_in_wait = FALSE /\ woken_early = FALSE
    /\ claims_since_pub = 0
    /\ safe_at_entry = nullptr /\ cb_at_entry = 0
    /\ e_prior = [ready |-> nullptr, have |-> FALSE, safe |-> nullptr]
    /\ call_flushes = 0 /\ pub_in_wait = FALSE
    /\ e_pc = "off" /\ e_hw = NoHw /\ e_fail_at = 0 /\ e_err = "None"

\* what no step of soundio_alsa_init touches
InitFrame ==
    /\ UNCHANGED <<ready_devices_info, safe_devices_info, mutex,
                   usb_plugged, scan_results>>
    /\ UNCHANGED <<poll_num, poll_errno, revents, got_rescan_event, devices_info, w_err>>
    /\ UNCHANGED <<change, old_devices_info, a_pc, hist, enum, i_fail, w_in, released>>

\* soundio_alsa_init returns err after destroy_alsa(soundio): lines 57-72;
\* closing notify_fd and the pipe drops what is queued on them
InitFailsTornDown(err) ==
    /\ os' = Teardown(os)
    /\ backend_data' = "null"
    /\ notify_q' = <<>>
    /\ pipe' = 0
    /\ i_ret' = err
    /\ c_pc' = "i_failed"

\* lines 713-722: without storage destroy_alsa finds no backend_data and
\* returns at once; with it the fields are set and abort_flag.test_and_set()
\* marks the watcher as wanted
I_Create ==
    /\ c_pc = "i_create"
    /\ IF i_fail.step = "create"
       THEN /\ i_ret' = "SoundIoErrorNoMem" /\ c_pc' = "i_failed"
            /\ UNCHANGED <<backend_data, abort_flag>>
       ELSE /\ backend_data' = "sia"
            /\ abort_flag' = TRUE
            /\ c_pc' = "i_mutex"
            /\ UNCHANGED i_ret
    /\ UNCHANGED <<have_devices_flag, pipe, w_pc, c_op, os, notify_q>>
    /\ InitFrame

\* lines 724-728
I_Mutex ==
    /\ c_pc = "i_mutex"
    /\ IF i_fail.step = "mutex"
       THEN InitFailsTornDown("SoundIoErrorNoMem")
       ELSE /\ os' = [os EXCEPT !.mutex = TRUE]
            /\ c_pc' = "i_cond"
            /\ UNCHANGED <<backend_data, pipe, i_ret, notify_q>>
    /\ UNCHANGED <<abort_flag, have_devices_flag, w_pc, c_op>>
    /\ InitFrame

\* lines 730-734
I_Cond ==
    /\ c_pc = "i_cond"
    /\ IF i_fail.step = "cond"
       THEN InitFailsTornDown("SoundIoErrorNoMem")
       ELSE /\ os' = [os EXCEPT !.cond = TRUE]
            /\ c_pc' = "i_inotify"
            /\ UNCHANGED <<backend_data, pipe, i_ret, notify_q>>
    /\ UNCHANGED <<abort_flag, have_devices_flag, w_pc, c_op>>
    /\ InitFrame

\* lines 738-749
I_InotifyInit ==
    /\ c_pc = "i_inotify"
    /\ IF i_fail.step = "inotify_init"
       THEN InitFailsTornDown(inotify_init_error(i_fail.errno))
       ELSE /\ os' = [os EXCEPT !.notify_fd = TRUE]
            /\ c_pc' = "i_watch"
            /\ UNCHANGED <<backend_data, pipe, i_ret, notify_q>>
    /\ UNCHANGED <<abort_flag, have_devices_flag, w_pc, c_op>>
    /\ InitFrame

\* lines 751-767
I_AddWatch ==
    /\ c_pc = "i_watch"
    /\ IF i_fail.step = "add_watch"
       THEN InitFailsTornDown(add_watch_error(i_fail.errno))
       ELSE /\ os' = [os EXCEPT !.notify_wd = TRUE]
            /\ c_pc' = "i_pipe"
            /\ UNCHANGED <<backend_data, pipe, i_ret, notify_q>>
    /\ UNCHANGED <<abort_flag, have_devices_flag, w_pc, c_op>>
    /\ InitFrame

\* lines 769-774: a failing pipe2 returns the error code at once
I_Pipe ==
    /\ c_pc = "i_pipe"
    /\ IF i_fail.step = "pipe"
       THEN /\ i_ret' = "SoundIoErrorSystemResources" /\ c_pc' = "i_failed"
            /\ UNCHANGED os
       ELSE /\ os' = [os EXCEPT !.pipe_fd = TRUE]
            /\ c_pc' = "i_wakeup"
            /\ UNCHANGED i_ret
    /\ UNCHANGED <<abort_flag, have_devices_flag, pipe, w_pc, c_op, backend_data, notify_q>>
    /\ InitFrame

\* line 776: wakeup_device_poll writes the byte that makes the watcher scan
I_WakeupPoll ==
    /\ c_pc = "i_wakeup"
    /\ pipe' = pipe + 1
    /\ c_pc' = "i_thread"
    /\ UNCHANGED <<abort_flag, have_devices_flag, w_pc, c_op, backend_data, os, i_ret, notify_q>>
    /\ InitFrame

\* lines 778-781: the watcher thread starts at the top of device_thread_run
I_ThreadCreate ==
    /\ c_pc = "i_thread"
    /\ IF i_fail.step = "thread"
       THEN InitFailsTornDown(i_fail.errno) /\ UNCHANGED w_pc
       ELSE /\ os' = [os EXCEPT !.thread = TRUE]
            /\ w_pc' = "poll"
            /\ c_pc' = "i_install"
            /\ UNCHANGED <<backend_data, pipe, i_ret, notify_q>>
    /\ UNCHANGED <<abort_flag, have_devices_flag, c_op>>
    /\ InitFrame

\* lines 783-803: the operations are installed and 0 is returned
I_Install ==
    /\ Running /\ c_pc = "i_install"
    /\ i_ret' = "None"
    /\ c_pc' = "idle" /\ c_op' = "none"
    /\ UNCHANGED <<abort_flag, have_devices_flag, pipe, w_pc, backend_data, os, notify_q>>
    /\ InitFrame

NextInit ==
    \/ I_Create \/ I_Mutex \/ I_Cond \/ I_InotifyInit \/ I_AddWatch
    \/ I_Pipe \/ I_WakeupPoll \/ I_ThreadCreate \/ I_Install
    \/ W_Poll \/ W_PollEintr \/ W_PollEnomem \/ W_CheckAbort \/ W_ReadNotify \/ W_ReadPipe
    \/ W_Scan \/ W_PubLock \/ W_Publish
    \/ HardwareChange \/ UnrelatedChange
    \/ D_Clear \/ D_Wake \/ D_Join \/ D_Teardown

SpecInit == InitAlsa /\ [][NextInit]_vars

(* ------------------------------------------------------------------ *)
(* One wake cycle of device_thread_run on its own (lines 509-580),     *)
(* over the records queued on notify_fd, the wake channel and the      *)
(* abort flag                                                          *)
(* ------------------------------------------------------------------ *)

\* records as read from notify_fd: PCM nodes created and deleted, a control
\* node, another node, a directory with the name of a PCM node, a record
\* without a name, the short name "pcm" with its length unpadded and padded
WatchRecords ==
    { PcmNodeEvent(FALSE), PcmNodeEvent(TRUE), ControlNodeEvent,
      NotifyEvent({"IN_DELETE"}, 16, "timer"),
      NotifyEvent({"IN_CREATE", "IN_ISDIR"}, 16, "pcmC2D0p"),
      NotifyEvent({"IN_IGNORED"}, 0, ""),
      NotifyEvent({"IN_CREATE"}, 4, "pcm"),
      NotifyEvent({"IN_CREATE"}, 16, "pcm") }

\* what the watcher can find when poll returns: records, a byte in the wake
\* channel or none, destroy_alsa under way (flag cleared, wake byte written)
\* or not
WatchInputs ==
    {[records |-> records, pipe |-> bytes, aborting |-> aborting] :
        records \in ListsUpTo(WatchRecords, MaxEvents),
        bytes \in 0..1, aborting \in BOOLEAN}

InitWatch ==
    /\ w_in \in {in \in WatchInputs : in.aborting => in.pipe > 0}
    /\ released = EmptyBag
    /\ notify_q = w_in.records
    /\ pipe = w_in.pipe
    /\ abort_flag = ~w_in.aborting
    /\ abort_at_poll = w_in.aborting
    /\ c_pc = (IF w_in.aborting THEN "d_join" ELSE "idle")
    /\ c_op = (IF w_in.aborting THEN "destroy" ELSE "none")
    /\ events_posted = Len(w_in.records)
    /\ have_devices_flag = FALSE
    /\ ready_devices_info = nullptr
    /\ safe_devices_info = nullptr
    /\ mutex = "free"
    /\ usb_plugged = FALSE
    /\ scan_results = ScanNow(FALSE)
    /\ w_pc = "poll" /\ poll_num = 0 /\ poll_errno = "none"
    /\ revents = [notify |-> FALSE, pipe |-> FALSE]
    /\ got_rescan_event = FALSE
    /\ devices_info = nullptr
    /\ w_err = "None"
    /\ change = FALSE
    /\ old_devices_info = nullptr
    /\ a_pc = "idle"
    /\ pub_count = 0 /\ cb_count = 0 /\ claim_count = 0
    /\ wakeups_called = 0
    /\ cycle_passes = 0 /\ cycle_qualifying = 0
    /\ wk_in_wait = FALSE /\ woken_early = FALSE
    /\ claims_since_pub = 0
    /\ safe_at_entry = nullptr /\ cb_at_entry = 0
    /\ e_prior = [ready |-> nullptr, have |-> FALSE, safe |-> nullptr]
    /\ call_flushes = 0 /\ pub_in_wait = FALSE
    /\ e_pc = "off" /\ e_hw = NoHw /\ e_fail_at = 0 /\ e_err = "None"
    /\ backend_data = "sia" /\ os = AllObjects
    /\ i_fail = NoFault /\ i_ret = "None"

NextWatch ==
    \/ W_Poll \/ W_PollEintr \/ W_PollEnomem \/ W_CheckAbort \/ W_ReadNotify \/ W_ReadPipe
    \/ W_Scan \/ W_PubLock \/ W_Publish

SpecWatch == InitWatch /\ [][NextWatch]_vars

(* ------------------------------------------------------------------ *)
(* refresh_devices on its own (lines 249-487), over hint lists, card   *)
(* registries, failing calls and earlier states of the exchange        *)
(* ------------------------------------------------------------------ *)

\* hints as the hint registry hands them out
CoreHints ==
    { Hint("default:CARD", Some("PCH\nDefault"), NullStr),
      Hint("null", Some("Discard"), NullStr),
      Hint("sysdefault:CARD", Some("PCH\nDefault"), NullStr),
      Hint("iec958:CARD", Some("PCH\nDigital Output"), NullStr),
      Hint("hdmi:CARD", Some("PCH\nHDMI OUTPUT"), NullStr),
      Hint("dsnoop:CARD", Some("PCH\nSnoop"), Some("Input")),
      Hint("dmix:CARD", Some("PCH\nMix"), Some("Output")) }

MoreHints ==
    { Hint("front:CARD", Some("PCH\nFront"), NullStr),
      Hint("surround21:CARD", Some("PCH\n2.1"), NullStr),
      Hint("surround40:CARD", Some("PCH\n4.0"), NullStr),
      Hint("surround41:CARD", Some("PCH\n4.1"), NullStr),
      Hint("surround50:CARD", Some("PCH\n5.0"), NullStr),
      Hint("surround51:CARD", Some("PCH\n5.1"), NullStr),
      Hint("surround71:CARD", Some("PCH\n7.1"), NullStr),
      Hint("nullsink", Some("Sink"), NullStr),
      Hint("sysdefault", Some("System"), NullStr),
      Hint("pulse", Some("Sound Server"), NullStr),
      Hint("mon:CARD", Some("Monitor\nof output"), Some("Input")),
      Hint("usb:CARD", Some("Output jack\nUSB"), NullStr),
      Hint("plug:CARD", Some("PCH\nno outputs"), Some("Output")),
      Hint("user", NullStr, NullStr),
      Hint("duplex:CARD", Some("PCH\nDuplex"), Some("Duplex")) }

\* card registries: none, the built-in card, the built-in and the USB card, a
\* card with a duplex PCM followed by a card whose control node is gone
CardLists ==
    { <<>>, BaseCards, BaseCards \o UsbCards,
      << Card(0, "PCH", FALSE, <<Pcm(0, "Analog", TRUE, TRUE)>>),
         Card(1, "USB", TRUE, <<>>) >> }

Hardware(hints, cards) ==
    [hints |-> hints, cards |-> cards, busy |-> {}, unconf |-> {},
     rate_min |-> 44100, min_dir |-> 0, rate_max |-> 96000, max_dir |-> 0]

\* the sub-devices a card can have: none, one or two, each with playback,
\* capture, both or neither
PcmShapes(index) ==
    {Pcm(index, "D" \o ToString(index), playback, capture) :
        playback \in BOOLEAN, capture \in BOOLEAN}

PcmLists ==
    {<<>>} \cup {<<p>> : p \in PcmShapes(0)}
           \cup {<<p, q>> : p \in PcmShapes(0), q \in PcmShapes(1)}

\* a card of the registry: its control device opens, or it is gone by the
\* time snd_ctl_open asks for it
CardShapes(index) ==
    {Card(index, "C" \o ToString(index), FALSE, pcms) : pcms \in PcmLists}
    \cup {Card(index, "C" \o ToString(index), TRUE, <<>>)}

\* card registries of up to two cards
RawCardLists ==
    {<<>>} \cup {<<c>> : c \in CardShapes(0)}
           \cup {<<c, d>> : c \in CardShapes(0), d \in CardShapes(1)}

\* the descriptors the scan of the hardware with the USB card probes
ProbeTargets ==
    { <<"default:CARD", "Output">>, <<"default:CARD", "Input">>,
      <<"hw:CARD=USB", "Input">>, <<"hw:0,0", "Output">>, <<"hw:1,0", "Input">> }

\* the hardware with the USB card, each descriptor free, busy (snd_pcm_open
\* fails) or impossible to configure (a snd_pcm_hw_params call fails)
ProbedHardware ==
    {[HwOf(TRUE) EXCEPT !.busy = busy, !.unconf = unconf] :
        busy \in SUBSET ProbeTargets, unconf \in SUBSET ProbeTargets}

\* rates snd_pcm_hw_params_get_rate_min and _max report
RateValues == {8000, 44100, 48000, 96000, 192000}

\* the built-in hardware with every rate range: the bounds, and for each
\* whether the bound itself is outside the range (min_dir 1, max_dir -1)
RatedHardware ==
    {hw \in {[HwOf(FALSE) EXCEPT !.rate_min = lo, !.min_dir = min_dir,
                                 !.rate_max = hi, !.max_dir = max_dir] :
                lo \in RateValues, hi \in RateValues,
                min_dir \in {0, 1}, max_dir \in {-1, 0}} :
        min_rate_of(hw) <= max_rate_of(hw)}

\* the snapshot of an earlier pass
EarlierSnapshot == Publish(EnumerationPass(HwOf(FALSE), 0).info, 1)

\* the exchange before the pass: nothing published yet, a snapshot waiting in
\* the slot, or a snapshot claimed by the consumer
FirstPass == [ready |-> nullptr, have |-> FALSE, safe |-> nullptr]

PriorStates ==
    { FirstPass,
      [ready |-> EarlierSnapshot, have |-> TRUE, safe |-> nullptr],
      [ready |-> nullptr, have |-> TRUE, safe |-> EarlierSnapshot] }

\* the inputs of the pass: hint lists scanned by a first pass in which no call
\* fails, card registries scanned by a first pass in which no call fails,
\* probes that fail and rate ranges in a first pass in which no call fails, and
\* every call failing (or none) on the hardware with and without the USB
\* card, in every state of the exchange
EnumInputs ==
    {[hw |-> Hardware(hints, cards), fail_at |-> 0, prior |-> FirstPass] :
        hints \in ListsUpTo(CoreHints, MaxHints), cards \in CardLists}
    \cup
    {[hw |-> Hardware(hints, BaseCards), fail_at |-> 0, prior |-> FirstPass] :
        hints \in ListsUpTo(CoreHints \cup MoreHints, MaxHints - 1)}
    \cup
    {[hw |-> Hardware(<<>>, cards), fail_at |-> 0, prior |-> FirstPass] :
        cards \in RawCardLists}
    \cup
    {[hw |-> hw, fail_at |-> 0, prior |-> FirstPass] :
        hw \in {h \in ProbedHardware : h.busy \cap h.unconf = {}} \cup RatedHardware}
    \cup
    UNION {{[hw |-> HwOf(plugged), fail_at |-> k, prior |-> prior] :
               k \in 0..EnumerationPass(HwOf(plugged), 0).calls,
               prior \in PriorStates} : plugged \in BOOLEAN}

InitEnum ==
    /\ \E in \in EnumInputs :
         /\ e_hw = in.hw /\ e_fail_at = in.fail_at /\ e_prior = in.prior
    /\ ready_devices_info = e_prior.ready
    /\ have_devices_flag = e_prior.have
    /\ safe_devices_info = e_prior.safe
    /\ pub_count = (IF e_prior.have THEN 1 ELSE 0)
    /\ claim_count = (IF e_prior.safe # nullptr THEN 1 ELSE 0)
    /\ cb_count = (IF e_prior.safe # nullptr THEN 1 ELSE 0)
    /\ claims_since_pub = (IF e_prior.safe # nullptr THEN 1 ELSE 0)
    /\ e_pc = "ready" /\ e_err = "None"
    /\ abort_flag = TRUE
    /\ mutex = "free"
    /\ notify_q = <<>> /\ pipe = 0
    /\ usb_plugged = FALSE
    /\ scan_results = ScanNow(FALSE)
    /\ w_pc = "scan" /\ poll_num = 1 /\ poll_errno = "none"
    /\ revents = [notify |-> FALSE, pipe |-> TRUE]
    /\ got_rescan_event = TRUE
    /\ devices_info = nullptr
    /\ w_err = "None"
    /\ c_pc = "idle" /\ c_op = "none" /\ change = FALSE
    /\ old_devices_info = nullptr
    /\ a_pc = "idle"
    /\ events_posted = 0 /\ wakeups_called = 0
    /\ cycle_passes = 0 /\ cycle_qualifying = 0
    /\ abort_at_poll = FALSE
    /\ wk_in_wait = FALSE /\ woken_early = FALSE
    /\ safe_at_entry = nullptr /\ cb_at_entry = 0
    /\ call_flushes = 0 /\ pub_in_wait = FALSE
    /\ backend_data = "sia" /\ os = AllObjects
    /\ i_fail = NoFault /\ i_ret = "None"
    /\ w_in = NoWake
    /\ released = EmptyBag

\* lines 249-478 of refresh_devices on the hardware e_hw, with call number
\* e_fail_at failing: the scan.  An error is returned to device_thread_run,
\* which ends the process in soundio_panic (lines 576-578); otherwise
\* refresh_devices goes on to take the mutex (line 480, W_PubLock) and to
\* publish (lines 481-486, W_Publish)
E_Scan ==
    /\ Running /\ e_pc = "ready" /\ w_pc = "scan"
    /\ LET res == EnumerationPass(e_hw, e_fail_at)
       IN  /\ e_err' = res.err
           /\ w_err' = res.err
           /\ IF ScanFailed(res)
              THEN w_pc' = "panic" /\ UNCHANGED devices_info
              ELSE w_pc' = "pub_lock" /\ devices_info' = res.info
    /\ e_pc' = "called"
    /\ cycle_passes' = cycle_passes + 1
    /\ UNCHANGED <<shared, poll_num, poll_errno, revents, got_rescan_event>>
    /\ UNCHANGED <<consumer, a_pc, e_hw, e_fail_at, alsa_init, w_in, released>>
    /\ UNCHANGED <<claim_count, pub_count, cb_count, events_posted, wakeups_called,
                   cycle_qualifying, abort_at_poll, wk_in_wait, woken_early,
                   claims_since_pub, safe_at_entry, cb_at_entry, e_prior,
                   call_flushes, pub_in_wait>>

NextEnum == E_Scan \/ W_PubLock \/ W_Publish

SpecEnum == InitEnum /\ [][NextEnum]_vars

(* ------------------------------------------------------------------ *)
(* Properties of the exchange and of the watcher loop                  *)
(* ------------------------------------------------------------------ *)

\* the consumer is past block_until_have_devices in the current call
PastGate ==
    c_pc \in {"flush_lock", "flush_swap", "flush_cb", "flush_destroy",
              "wait_lock", "wait_cond", "wait_blocked", "wait_wake"}

\* C1: every published snapshot is taken out of the slot by at most one claim:
\* between two publishes there is at most one claim, the slot never holds a
\* snapshot that is (or was) the consumer's inventory, and a claim replaces
\* the inventory by a different, newer snapshot.
C1_AtMostOneClaimPerPublish ==
    /\ claims_since_pub <= 1
    /\ ready_devices_info # nullptr =>
          /\ ready_devices_info.id > safe_devices_info.id
          /\ ready_devices_info.id > old_devices_info.id
    /\ old_devices_info # nullptr => old_devices_info.id < safe_devices_info.id

\* a second flush_events, holding the mutex, finds the slot empty because the
\* snapshot of the last publish has been claimed
C1_Witness ==
    /\ c_pc = "flush_swap" /\ ready_devices_info = nullptr
    /\ claims_since_pub = 1 /\ cb_count = claim_count

\* C2: block_until_have_devices has returned only in states where a publish
\* has happened.
C2_FirstSnapshotGate == PastGate => pub_count >= 1 /\ have_devices_flag

\* the consumer blocked before the first publish, a wakeup() signal sent it
\* round the loop, and it is past the gate now
C2_Witness == c_pc = "flush_lock" /\ woken_early /\ pub_count = 1

\* C3: callbacks never outnumber claims nor claims publishes, no second claim
\* (hence no second callback) comes without a publish in between, and a
\* flush_events that found the slot empty has invoked no callback and left the
\* inventory as it was.
C3_FlushIdempotent ==
    /\ cb_count <= claim_count /\ claim_count <= pub_count
    /\ claims_since_pub <= 1
    /\ (c_pc = "flush_destroy" /\ ~change) =>
          /\ cb_count = cb_at_entry
          /\ safe_devices_info = safe_at_entry

\* a flush_events after an earlier claim, with no publish in between, ends
\* without a callback
C3_Witness ==
    /\ c_pc = "flush_destroy" /\ ~change
    /\ cb_at_entry >= 1 /\ claims_since_pub = 1

\* C4: a wakeup() that signals while the consumer is inside wait_events makes
\* that wait_events call return (unless the process has been ended).
C4_WakeupEndsWait == wk_in_wait ~> (c_op # "wait" \/ ~Running)

\* C5: a wake cycle of the watcher runs at most one Enumeration Pass, and a
\* completed cycle that drained qualifying records ran exactly one.
C5_Batching ==
    /\ cycle_passes <= 1
    /\ (w_pc = "poll" /\ cycle_qualifying >= 1) => cycle_passes = 1

\* two qualifying records were drained in one cycle, which ran one pass
C5_Witness == w_pc = "poll" /\ cycle_qualifying >= 2 /\ cycle_passes = 1

\* C6: when destroy_alsa cleared the flag while the watcher was in poll, the
\* watcher goes from poll to the abort check to its exit and nowhere else (no
\* read, no scan), and once the wake byte is written poll cannot block.
C6_AbortFirst ==
    abort_at_poll =>
        /\ w_pc \in {"poll", "check_abort", "exited"}
        /\ (c_pc = "d_join" /\ w_pc = "poll") => pipe > 0

\* the watcher has exited although a qualifying record is still queued
C6_Witness ==
    /\ abort_at_poll /\ w_pc = "exited"
    /\ \E i \in 1..Len(notify_q) : Qualifies(notify_q[i])

(* ------------------------------------------------------------------ *)
(* Properties of the Enumeration Pass                                  *)
(* ------------------------------------------------------------------ *)

\* the pass has returned, and it returned without an error
PassDone == e_pc = "called" /\ w_pc \in {"poll", "panic"}

PassCompleted == PassDone /\ e_err = "None"

\* the descriptors of a snapshot, and its logical (hint) descriptors per list
AllDevices(snapshot) ==
    {snapshot.info.output_devices[i] : i \in 1..Len(snapshot.info.output_devices)}
    \cup {snapshot.info.input_devices[i] : i \in 1..Len(snapshot.info.input_devices)}

IsLogical(d) == ~d.is_raw

LogicalOutputs(snapshot) == SelectSeq(snapshot.info.output_devices, IsLogical)

LogicalInputs(snapshot) == SelectSeq(snapshot.info.input_devices, IsLogical)

\* the snapshots the exchange holds
HeldSnapshots == {ready_devices_info, safe_devices_info} \ {nullptr}

\* C7: a pass that fails leaves the slot, the flag and the consumer's
\* inventory as they were before it started; the slot is written only by a
\* pass that went through both sub-scans, and then it holds what the two
\* sub-scans built.
C7_NoPartialPublish ==
    PassDone =>
        IF e_err # "None"
        THEN /\ ready_devices_info = e_prior.ready
             /\ have_devices_flag = e_prior.have
             /\ safe_devices_info = e_prior.safe
        ELSE /\ ready_devices_info = Publish(EnumerationPass(e_hw, 0).info, pub_count)
             /\ have_devices_flag
             /\ safe_devices_info = e_prior.safe

\* a card registry call failed after descriptors had been built, while an
\* earlier snapshot was waiting in the slot
C7_Witness ==
    /\ PassDone /\ e_err = "SoundIoErrorSystemResources"
    /\ EnumerationPass(e_hw, e_fail_at).info.output_devices # <<>>
    /\ e_prior.ready # nullptr /\ ready_devices_info = e_prior.ready

\* the exclusion list as the specification states it
PolicyExcluded(name) ==
    \/ name = "null"
    \/ \E prefix \in {"sysdefault:", "surround21:", "surround40:", "surround41:",
                      "surround50:", "surround51:", "surround71:"} :
           str_has_prefix(name, prefix)

\* C8: no snapshot in the exchange holds, in either list, a descriptor named
\* "null" or one whose name starts with sysdefault:, surround21:, surround40:,
\* surround41:, surround50:, surround51: or surround71:.
C8_ExclusionPolicy ==
    \A snapshot \in HeldSnapshots : \A d \in AllDevices(snapshot) : ~PolicyExcluded(d.name)

\* a completed pass over a hint list with "null" and a surround alias in it
\* has published a snapshot with descriptors
C8_Witness ==
    /\ PassCompleted
    /\ \E i \in 1..Len(e_hw.hints) : e_hw.hints[i].NAME = "null"
    /\ \E i \in 1..Len(e_hw.hints) : str_has_prefix(e_hw.hints[i].NAME, "surround")
    /\ AllDevices(ready_devices_info) # {}

\* the detail text of a hint: what follows the first newline of DESC
Detail(hint) ==
    IF hint.DESC = NullStr THEN NullStr
    ELSE str_partition_on_char(hint.DESC[1], "\n").tail

\* the name and the description of the logical descriptors of a hint
SameSource(d, hint) ==
    /\ hint.DESC # NullStr
    /\ d.name = hint.NAME
    /\ d.description =
          LET part == str_partition_on_char(hint.DESC[1], "\n")
          IN  device_description(part.head, part.tail)

\* letters in lower case
UpperCase == "ABCDEFGHIJKLMNOPQRSTUVWXYZ"

LowerCase == "abcdefghijklmnopqrstuvwxyz"

ToLower(c) ==
    IF \E k \in 1..Len(UpperCase) : SubSeq(UpperCase, k, k) = c
    THEN LET k == CHOOSE k \in 1..Len(UpperCase) : SubSeq(UpperCase, k, k) = c
         IN  SubSeq(LowerCase, k, k)
    ELSE c

\* text contains word in some letter case (word is given in lower case)
ContainsAnyCase(text, word) ==
    \E i \in 1..(Len(text) - Len(word) + 1) :
        \A j \in 1..Len(word) :
            ToLower(SubSeq(text, i + j - 1, i + j - 1)) = SubSeq(word, j, j)

\* the hint's detail text contains "output" in some letter case
NamesOutputAnyCase(hint) ==
    Detail(hint) # NullStr /\ ContainsAnyCase(Detail(hint)[1], "output")

\* the hint's detail text contains "Output" or "output"
NamesOutput(hint) ==
    /\ Detail(hint) # NullStr
    /\ strstr(Detail(hint)[1], "Output") \/ strstr(Detail(hint)[1], "output")

\* the hints of the list that have the name and description of hint and ask
\* for playback
PlaybackTwins(hints, hint) ==
    LET Twin(h) == h.NAME = hint.NAME /\ h.DESC = hint.DESC /\ is_playback(h.IOID)
    IN  Len(SelectSeq(hints, Twin))

\* C9 as stated: a hint whose detail text contains "output" in any letter
\* case has no Input descriptor in the published snapshot.
C9_AnyCaseSuppression ==
    PassCompleted =>
        \A i \in 1..Len(e_hw.hints) :
            LET hint == e_hw.hints[i]
                FromHint(d) == SameSource(d, hint)
            IN  (~ExcludedHint(hint.NAME) /\ NamesOutputAnyCase(hint)) =>
                    Len(SelectSeq(LogicalInputs(ready_devices_info), FromHint)) = 0

\* C9, amended: a hint whose detail text contains "Output" or "output" has no
\* Input descriptor in the published snapshot, and it has its Output
\* descriptor whenever its IOID is Output or absent.
C9_CaptureSuppression ==
    PassCompleted =>
        \A i \in 1..Len(e_hw.hints) :
            LET hint == e_hw.hints[i]
                FromHint(d) == SameSource(d, hint)
            IN  (~ExcludedHint(hint.NAME) /\ NamesOutput(hint)) =>
                    /\ Len(SelectSeq(LogicalInputs(ready_devices_info), FromHint)) = 0
                    /\ Len(SelectSeq(LogicalOutputs(ready_devices_info), FromHint))
                          = PlaybackTwins(e_hw.hints, hint)

\* a hint with "Output" in its detail text and no IOID went through a
\* completed pass: its Output descriptor is published, no Input descriptor is
C9_Witness ==
    /\ PassCompleted
    /\ \E i \in 1..Len(e_hw.hints) :
         LET hint == e_hw.hints[i]
             FromHint(d) == SameSource(d, hint)
         IN  /\ ~ExcludedHint(hint.NAME) /\ NamesOutput(hint) /\ hint.IOID = NullStr
             /\ Len(SelectSeq(LogicalOutputs(ready_devices_info), FromHint)) = 1
             /\ Len(SelectSeq(LogicalInputs(ready_devices_info), FromHint)) = 0

\* the names of the descriptors of a list, in order
NamesOf(devices) == [i \in 1..Len(devices) |-> devices[i].name]

\* the names of a list of hints, in order
HintNames(hints) == [i \in 1..Len(hints) |-> hints[i].NAME]

\* C10 as stated: the logical descriptors of each list are, in hint order, one
\* for every hint outside the specification's exclusion list whose IOID is
\* consistent with the list's direction.
C10_OnePerDirection ==
    PassCompleted =>
        LET ForOutput(h) == ~PolicyExcluded(h.NAME) /\ is_playback(h.IOID)
            ForInput(h) == ~PolicyExcluded(h.NAME) /\ is_capture(h.IOID)
        IN  /\ NamesOf(LogicalOutputs(ready_devices_info)) = HintNames(SelectSeq(e_hw.hints, ForOutput))
            /\ NamesOf(LogicalInputs(ready_devices_info)) = HintNames(SelectSeq(e_hw.hints, ForInput))

\* C10, amended: the hints that count are those outside the exclusion list of
\* the scan (which has front: in it as well), and a hint yields an Input
\* descriptor only if, besides its IOID being Input or absent, its detail
\* text contains neither "Output" nor "output".  The hint list default:CARD,
\* null, sysdefault:CARD without IOID gives two logical descriptors, one per
\* list, both named default:CARD.
C10_LogicalScanByDirection ==
    PassCompleted =>
        LET ForOutput(h) == ~ExcludedHint(h.NAME) /\ is_playback(h.IOID)
            ForInput(h) == ~ExcludedHint(h.NAME) /\ is_capture(h.IOID) /\ ~NamesOutput(h)
        IN  /\ NamesOf(LogicalOutputs(ready_devices_info)) = HintNames(SelectSeq(e_hw.hints, ForOutput))
            /\ NamesOf(LogicalInputs(ready_devices_info)) = HintNames(SelectSeq(e_hw.hints, ForInput))
            /\ e_hw.hints = BaseHints =>
                  /\ NamesOf(LogicalOutputs(ready_devices_info)) = <<"default:CARD">>
                  /\ NamesOf(LogicalInputs(ready_devices_info)) = <<"default:CARD">>

\* the pass over default:CARD, null, sysdefault:CARD has published one logical
\* Output and one logical Input descriptor
C10_Witness ==
    /\ PassCompleted /\ e_hw.hints = BaseHints
    /\ Len(LogicalOutputs(ready_devices_info)) = 1
    /\ Len(LogicalInputs(ready_devices_info)) = 1

(* ------------------------------------------------------------------ *)
(* Default index and raw scan                                          *)
(* ------------------------------------------------------------------ *)

\* the positions (counted from 0) of the descriptors of a list that come from
\* a hint whose name starts with "default:"
DefaultPositions(devices) ==
    {i - 1 : i \in {j \in 1..Len(devices) :
                       ~devices[j].is_raw /\ str_has_prefix(devices[j].name, "default:")}}

\* the default index of a list is the position of a default-prefixed
\* descriptor when the list has one, and "none" (-1) when it has not
DefaultIndexSound(devices, index) ==
    IF DefaultPositions(devices) # {}
    THEN index \in DefaultPositions(devices)
    ELSE index = -1

\* C11: in the snapshot a completed pass has published, the default index of
\* each list is the position of a default-prefixed descriptor of that list if
\* there is one (0 in both lists when default:CARD without IOID is the first
\* hint that is not excluded), and "none", never an out-of-range position, if
\* there is none.
C11_DefaultIndex ==
    PassCompleted =>
        LET info == ready_devices_info.info
            kept == SelectSeq(e_hw.hints, LAMBDA h : ~ExcludedHint(h.NAME))
        IN  /\ DefaultIndexSound(info.output_devices, info.default_output_index)
            /\ DefaultIndexSound(info.input_devices, info.default_input_index)
            /\ (/\ kept # <<>>
                /\ kept[1].NAME = "default:CARD" /\ kept[1].IOID = NullStr
                /\ ~NamesOutput(kept[1])
                /\ \A i \in 2..Len(kept) : ~str_has_prefix(kept[i].NAME, "default:"))
               => (info.default_output_index = 0 /\ info.default_input_index = 0)

\* the raw descriptors of each list of a snapshot, in order
RawOutputs(snapshot) == SelectSeq(snapshot.info.output_devices, LAMBDA d : d.is_raw)

RawInputs(snapshot) == SelectSeq(snapshot.info.input_devices, LAMBDA d : d.is_raw)

\* how many descriptors of a list have this name
CountNamed(devices, name) == Len(SelectSeq(devices, LAMBDA d : d.name = name))

\* the positions, in the card registry, of the cards the card loop opens: those
\* before the first card whose control device is gone
CardsOpened(cards) ==
    {k \in 1..Len(cards) : \A j \in 1..k : ~cards[j].ctl_enoent}

\* the raw descriptors of the snapshot are exactly those of the existing
\* combinations of the cards at these positions: one per combination, in the
\* list of its direction, with the name hw:<card>,<device>
RawScanOf(snapshot, cards, positions) ==
    LET Existing(playback) ==
            {<<k, j>> \in (positions \X (1..2)) :
                /\ j <= Len(cards[k].pcms)
                /\ IF playback THEN cards[k].pcms[j].playback
                               ELSE cards[k].pcms[j].capture}
        NameOf(kj) == raw_device_name(cards[kj[1]].index, cards[kj[1]].pcms[kj[2]].index)
        Exact(devices, playback) ==
            /\ Len(devices) = Cardinality(Existing(playback))
            /\ \A kj \in Existing(playback) : CountNamed(devices, NameOf(kj)) = 1
    IN  /\ Exact(RawOutputs(snapshot), TRUE)
        /\ Exact(RawInputs(snapshot), FALSE)
        /\ \A d \in AllDevices(snapshot) :
              d.is_raw => str_has_prefix(d.name, "hw:")

\* C12 as stated: a completed pass has created exactly one raw descriptor for
\* every existing combination of card, sub-device and direction of the card
\* registry, and none for a combination that does not exist.
C12_OnePerExistingCombination ==
    PassCompleted =>
        RawScanOf(ready_devices_info, e_hw.cards, 1..Len(e_hw.cards))

\* C12, amended: a completed pass has created exactly one raw descriptor for
\* every existing combination of the cards that come before the first card
\* whose control device is gone, and no other raw descriptor; a combination
\* that does not exist is skipped and the pass completes.  Card 0 with
\* sub-device 0 supporting playback only gives the one raw descriptor hw:0,0,
\* in the output list.
C12_RawScan ==
    /\ PassCompleted =>
          /\ RawScanOf(ready_devices_info, e_hw.cards, CardsOpened(e_hw.cards))
          /\ e_hw.cards = BaseCards =>
                /\ NamesOf(RawOutputs(ready_devices_info)) = <<"hw:0,0">>
                /\ RawInputs(ready_devices_info) = <<>>
    /\ (PassDone /\ e_fail_at = 0 /\ e_hw.hints = <<>>) => e_err = "None"

\* a completed pass over the built-in card with its playback-only sub-device
\* has published hw:0,0 as the only raw descriptor
C12_Witness ==
    /\ PassCompleted /\ e_hw.cards = BaseCards
    /\ NamesOf(RawOutputs(ready_devices_info)) = <<"hw:0,0">>
    /\ ready_devices_info.info.output_devices[Len(ready_devices_info.info.output_devices)].purpose = "Output"
    /\ RawInputs(ready_devices_info) = <<>>

(* ------------------------------------------------------------------ *)
(* Properties of initialisation and of the calls of the application    *)
(* ------------------------------------------------------------------ *)

\* soundio_alsa_init has returned an error code
InitFailed == c_pc = "i_failed"

\* C13: when soundio_alsa_init has failed, whatever call it was that failed,
\* it has returned an error code, backend_data is null, no watcher thread
\* exists, and no mutex, condition variable, inotify descriptor, watch or pipe
\* created by it is left.
C13_InitFailureTornDown ==
    InitFailed =>
        /\ i_ret \notin {"None", "Pending"}
        /\ backend_data = "null"
        /\ w_pc = "none" /\ ~os.thread
        /\ ~os.mutex /\ ~os.cond
        /\ ~os.notify_fd /\ ~os.notify_wd /\ ~os.pipe_fd

\* C14: the claim of flush_events is made in one step while the consumer holds
\* the mutex (the inventory and the slot never hold the same snapshot); when
\* on_devices_change is invoked the inventory is the claimed snapshot, newer
\* than the one the call started with, and the previous inventory is still
\* held in old_devices_info; it is still held when the callback has returned,
\* and is released afterwards.
C14_ClaimOrdering ==
    /\ c_pc = "flush_swap" => mutex = "consumer"
    /\ safe_devices_info # nullptr => safe_devices_info # ready_devices_info
    /\ (c_pc = "flush_cb" /\ change) =>
          /\ cb_count = cb_at_entry
          /\ safe_devices_info # nullptr
          /\ safe_devices_info.id > safe_at_entry.id
          /\ old_devices_info = safe_at_entry
    /\ (c_pc = "flush_destroy" /\ change) =>
          /\ cb_count = cb_at_entry + 1
          /\ safe_devices_info.id > safe_at_entry.id
          /\ old_devices_info = safe_at_entry
    /\ c_pc \in {"idle", "wait_lock", "wait_cond", "wait_blocked", "wait_wake"} =>
          old_devices_info = nullptr

\* a second snapshot has been claimed and the callback has returned: the
\* inventory is the new snapshot and the previous one is about to be released
C14_Witness ==
    /\ c_pc = "flush_destroy" /\ change
    /\ old_devices_info # nullptr /\ old_devices_info = safe_at_entry
    /\ safe_devices_info.id > old_devices_info.id
    /\ cb_count = cb_at_entry + 1

\* the consumer is in the part of wait_events that follows its flush_events
InWait == c_pc \in {"wait_lock", "wait_cond", "wait_blocked", "wait_wake"}

\* C15: a call of wait_events claims under the mutex once, before it blocks,
\* and never again; from the end of its flush_events to its return it invokes
\* no callback, takes nothing out of the slot and leaves the inventory alone,
\* so that a snapshot published meanwhile stays in the slot (or is replaced by
\* a newer one) until a later call.
C15_WaitDoesNotReflush ==
    [][ /\ call_flushes' <= 1
        /\ InWait' => call_flushes' = 1
        /\ InWait =>
              /\ safe_devices_info' = safe_devices_info
              /\ cb_count' = cb_count /\ claim_count' = claim_count
              /\ ready_devices_info # nullptr =>
                    /\ ready_devices_info' # nullptr
                    /\ ready_devices_info'.id >= ready_devices_info.id
        /\ (c_pc = "wait_wake" /\ c_pc' = "idle" /\ pub_in_wait) =>
              /\ ready_devices_info' # nullptr
              /\ ready_devices_info'.id > safe_devices_info'.id
              /\ claims_since_pub' = 0 ]_vars

\* a publish has woken the blocked wait_events call, which is about to return
\* with the new snapshot waiting in the slot and the inventory it had
C15_Witness ==
    /\ c_pc = "wait_wake" /\ pub_in_wait /\ call_flushes = 1
    /\ ready_devices_info # nullptr /\ safe_devices_info # nullptr
    /\ ready_devices_info.id > safe_devices_info.id

\* C16: no step of wakeup() changes the slot, the have-published flag, the
\* consumer's inventory or the abort flag, nor counts as a publish, a claim or
\* a callback; and on_devices_change is only ever invoked by a flush_events
\* that has claimed a snapshot newer than the inventory it started with, so a
\* wakeup without a publish leads to no callback.
C16_WakeupChangesNothing ==
    [][ /\ a_pc' # a_pc =>
              /\ ready_devices_info' = ready_devices_info
              /\ have_devices_flag' = have_devices_flag
              /\ safe_devices_info' = safe_devices_info
              /\ abort_flag' = abort_flag
              /\ pub_count' = pub_count /\ claim_count' = claim_count
              /\ cb_count' = cb_count
        /\ cb_count' # cb_count =>
              /\ c_pc = "flush_cb" /\ change
              /\ safe_devices_info.id > safe_at_entry.id
        /\ PastGate' => have_devices_flag' /\ pub_count' >= 1 ]_vars

\* wakeup() has woken the consumer blocked in wait_events while no snapshot
\* waits in the slot: every publish so far was claimed and called back before
C16_Witness ==
    /\ c_pc = "wait_wake" /\ wk_in_wait /\ ~pub_in_wait
    /\ a_pc = "idle" /\ wakeups_called >= 1
    /\ ready_devices_info = nullptr
    /\ cb_count = pub_count /\ claim_count = pub_count

(* ------------------------------------------------------------------ *)
(* The qualifying filter of the watcher                                *)
(* ------------------------------------------------------------------ *)

\* a wake cycle in which abort was not seen has come to its end: the loop is
\* back at poll, or the pass it ran has ended the process
CycleEnded == w_pc \in {"poll", "panic"} /\ poll_num > 0

\* a record qualifies as the claim words it: by the length of its name
C17_QualifiesByName(r) ==
    /\ r.mask \cap {"IN_CREATE", "IN_DELETE"} # {}
    /\ "IN_ISDIR" \notin r.mask
    /\ Len(r.name) >= 8
    /\ SubSeq(r.name, 1, 3) = "pcm"

\* a record qualifies by the length of its name field, which the kernel pads
C17_QualifiesByField(r) ==
    /\ r.mask \cap {"IN_CREATE", "IN_DELETE"} # {}
    /\ "IN_ISDIR" \notin r.mask
    /\ r.len >= 8
    /\ Len(r.name) >= 3 /\ SubSeq(r.name, 1, 3) = "pcm"

\* C17 as stated: a wake cycle without abort runs the pass if and only if one
\* of the records it drained is a create or delete record, not of a
\* directory, with a name of 8 characters at least that starts with "pcm"
C17_PassIffQualifying ==
    CycleEnded =>
        (cycle_passes = 1 <=>
            \E i \in 1..Len(w_in.records) : C17_QualifiesByName(w_in.records[i]))

\* C17: a wake cycle without abort runs the pass once if one of the records it
\* drained is a create or delete record, not of a directory, with a name field
\* of 8 bytes at least and a name that starts with "pcm", or if the wake
\* channel was readable; otherwise it runs no pass, and a cycle that sees
\* abort runs none
C17_QualifyingFilter ==
    /\ cycle_passes <= 1
    /\ CycleEnded =>
          (cycle_passes = 1 <=>
              \/ \E i \in 1..Len(w_in.records) : C17_QualifiesByField(w_in.records[i])
              \/ w_in.pipe > 0)
    /\ w_pc = "exited" => cycle_passes = 0

\* a cycle that drained a directory record and a PCM node record, with nothing
\* in the wake channel, has run the pass
C17_Witness ==
    /\ CycleEnded /\ cycle_passes = 1 /\ w_in.pipe = 0
    /\ Len(w_in.records) = 2
    /\ "IN_ISDIR" \in w_in.records[1].mask
    /\ C17_QualifiesByField(w_in.records[2])

(* ------------------------------------------------------------------ *)
(* The abort flag                                                      *)
(* ------------------------------------------------------------------ *)

\* C18: abort_flag is set while the backend is not aborted and cleared once
\* destroy_alsa has asked for abort (line 52); no step of any thread sets a
\* cleared flag again
C18_AbortOneWay == [][~abort_flag => abort_flag' = FALSE]_vars

(* ------------------------------------------------------------------ *)
(* Probing                                                             *)
(* ------------------------------------------------------------------ *)

\* the descriptors of a list, in order, without what probe_device fills in
StubsOf(devices) ==
    [i \in 1..Len(devices) |->
        [name |-> devices[i].name, description |-> devices[i].description,
         is_raw |-> devices[i].is_raw, purpose |-> devices[i].purpose]]

\* the probe of descriptor d has failed on hardware hw
ProbeFailed(d, hw) == <<d.name, d.purpose>> \in hw.busy \cup hw.unconf

\* C19: a probe_device that fails does not end the pass: a pass in which no
\* other call fails publishes a snapshot whatever probes fail, the published
\* lists hold the descriptors the pass publishes when every probe succeeds,
\* in the same number and order and with the same default indexes, and a
\* descriptor whose probe failed is in its list with its rates unset
C19_ProbeFailureNotFatal ==
    /\ (PassDone /\ e_fail_at = 0 /\ e_hw \in ProbedHardware) =>
          /\ e_err = "None" /\ have_devices_flag /\ ready_devices_info # nullptr
          /\ NamesOf(ready_devices_info.info.output_devices)
                = <<"default:CARD", "hw:0,0">>
          /\ NamesOf(ready_devices_info.info.input_devices)
                = <<"default:CARD", "hw:CARD=USB", "hw:1,0">>
    /\ PassCompleted =>
          LET all_free == EnumerationPass([e_hw EXCEPT !.busy = {}, !.unconf = {}], 0).info
              info == ready_devices_info.info
          IN  /\ StubsOf(info.output_devices) = StubsOf(all_free.output_devices)
              /\ StubsOf(info.input_devices) = StubsOf(all_free.input_devices)
              /\ info.default_output_index = all_free.default_output_index
              /\ info.default_input_index = all_free.default_input_index
              /\ \A d \in AllDevices(ready_devices_info) :
                    IF ProbeFailed(d, e_hw)
                    THEN d.sample_rate_min = 0 /\ d.sample_rate_default = 0
                    ELSE d.sample_rate_default # 0

\* a pass in which the default output is busy and the USB capture device
\* cannot be configured has published both, unprobed, next to probed ones
C19_Witness ==
    /\ PassCompleted
    /\ e_hw.busy = {<<"default:CARD", "Output">>}
    /\ e_hw.unconf = {<<"hw:1,0", "Input">>}
    /\ ready_devices_info.info.output_devices[1].name = "default:CARD"
    /\ ready_devices_info.info.output_devices[1].sample_rate_default = 0
    /\ ready_devices_info.info.output_devices[2].sample_rate_default = MAX_SAMPLE_RATE
    /\ ready_devices_info.info.input_devices[3].sample_rate_default = 0

\* C20: after a probe_device that succeeded the descriptor holds the rate
\* range of the device: sample_rate_min is the lowest rate the hardware
\* supports and sample_rate_max the highest, for every range the hardware
\* reports
C20_RateRangeStored ==
    PassCompleted =>
        \A d \in AllDevices(ready_devices_info) :
            ~ProbeFailed(d, e_hw) =>
                /\ d.sample_rate_min = min_rate_of(e_hw)
                /\ d.sample_rate_max = max_rate_of(e_hw)

(* ------------------------------------------------------------------ *)
(* Shutdown                                                            *)
(* ------------------------------------------------------------------ *)

\* C21: once destroy_alsa has cleared abort_flag and written to the wake
\* channel (it is at the join of line 54), the watcher thread exits its loop
\* and the join returns, wherever the watcher was in its cycle
C21_ShutdownTerminates ==
    (c_pc = "d_join") ~> (c_pc \in {"d_teardown", "destroyed"} \/ ~Running)

(* ------------------------------------------------------------------ *)
(* Delivery of published snapshots                                     *)
(* ------------------------------------------------------------------ *)

\* the watcher has published after the flush_events of the current
\* wait_events released the mutex (line 608) and before the call waits on the
\* condition (line 620): the claim of line 601 left the slot empty, and it
\* holds a snapshot again
PublishedBeforeWait ==
    /\ c_op = "wait"
    /\ c_pc \in {"flush_cb", "flush_destroy", "wait_lock", "wait_cond"}
    /\ ready_devices_info # nullptr

\* C22: a wait_events during which the watcher has published between the
\* flush and the wait on the condition returns
C22_NoLostPublish == PublishedBeforeWait ~> (c_op # "wait" \/ ~Running)

\* the number of holders of the published snapshot id: the exchange slot, the
\* consumer's current inventory, and flush_events for the superseded
\* inventory it is about to release
Holders(id) ==
    (IF ready_devices_info.id = id THEN 1 ELSE 0)
    + (IF safe_devices_info.id = id THEN 1 ELSE 0)
    + (IF old_devices_info.id = id THEN 1 ELSE 0)

\* C23: every snapshot published so far either has exactly one holder and has
\* not been released, or has no holder and has been released exactly once: no
\* snapshot has two owners, none is released twice, none is released while it
\* is in the slot or the consumer's current inventory, and none is dropped
\* without a release; the snapshot a pass is building is held by the pass
\* alone until the publish
C23_SnapshotOwnership ==
    /\ \A id \in 1..pub_count : Holders(id) + CopiesIn(id, released) = 1
    /\ BagToSet(released) \subseteq 1..pub_count
    /\ \A id \in BagToSet(released) :
          id \notin {ready_devices_info.id, safe_devices_info.id}
    /\ devices_info # nullptr => w_pc \in {"pub_lock", "publish"}

\* after teardown: the first snapshot was released by flush_events when the
\* second became the inventory, the third was released unclaimed by
\* destroy_alsa
C23_Witness ==
    /\ c_pc = "destroyed" /\ pub_count = 3
    /\ safe_devices_info.id = 2
    /\ released = SetToBag({1, 3})

\* C24: the byte soundio_alsa_init writes to the wake channel makes the first
\* wake cycle of the watcher run the Enumeration Pass without any record from
\* /dev/snd: the watcher is never back at poll after a wake cycle without a
\* publish behind it, and a flush_events called before any snapshot was
\* delivered returns with a snapshot delivered through on_devices_change,
\* unless a failing pass has ended the process
C24_InitialEnumeration ==
    /\ []((w_pc = "poll" /\ poll_num > 0) => pub_count >= 1)
    /\ (c_op = "flush" /\ cb_count = 0)
          ~> ((c_op = "none" /\ cb_count >= 1) \/ ~Running)

\* the first flush_events has delivered the first snapshot and no record has
\* ever arrived from /dev/snd
C24_Witness ==
    /\ c_op = "flush" /\ c_pc = "flush_destroy" /\ change
    /\ cb_count = 1 /\ safe_devices_info.id = 1
    /\ events_posted = 0 /\ wakeups_called = 0

\* C25: the slot holds nothing or the snapshot published last; every publish
\* stores its snapshot in the slot, whatever the slot held; the inventory
\* changes only by a claim, which takes the content of the slot, the latest
\* snapshot published at that moment, and it is newer than the inventory it
\* replaces
C25_NewestWins ==
    /\ [](ready_devices_info # nullptr => ready_devices_info.id = pub_count)
    /\ [][pub_count' # pub_count =>
            /\ pub_count' = pub_count + 1
            /\ ready_devices_info'.id = pub_count']_vars
    /\ [][safe_devices_info' # safe_devices_info =>
            /\ ready_devices_info # nullptr
            /\ safe_devices_info' = ready_devices_info
            /\ safe_devices_info'.id = pub_count
            /\ safe_devices_info'.id > safe_devices_info.id]_vars

\* the first snapshot was replaced in the slot before any claim, and the
\* first claim has taken the second
C25_Witness ==
    /\ c_pc = "flush_cb" /\ change
    /\ old_devices_info = nullptr /\ safe_devices_info.id = 2
    /\ CopiesIn(1, released) = 1 /\ pub_count = 2

====
